---- MODULE Spec2Model ----
(***************************************************************************)
(* Verification model of the RAG chatbot backend (api-server).             *)
(*                                                                         *)
(* Three specifications share this module:                                 *)
(*   SpecStore  DocumentStore + EmbeddingService + Retriever               *)
(*   SpecLLM    BedrockClient.generate_response, one remote call per step  *)
(*   Spec       ChatService / FallbackService / lambda_handler             *)
(*                                                                         *)
(* Python strings that the code only stores, compares or tests for         *)
(* emptiness are TLA+ strings; the Korean literals of the source are       *)
(* named by ASCII tags (the source line of each is given where defined).   *)
(***************************************************************************)
EXTENDS Integers, Sequences, FiniteSets, TLC

VARIABLES
    documents,      \* DocumentStore.documents
    embeddings,     \* DocumentStore.embeddings
    retriever,      \* Retriever: documents snapshot, is_embedding_initialized
    embsvc,         \* EmbeddingService: batch_size, bedrock_runtime present
    emb,            \* EmbeddingService: the _get_embedding call in progress
    ingest,         \* DocumentStore: the bucket and the position of the load
    threads,        \* DocumentStore: the threads calling into the store
    inflight,       \* ChatService: the process_message calls in progress
    tracker,        \* CostTracker: start/end time, memory size, costs, usage
    sop,            \* the last store/retriever operation: arguments and result
    llm,            \* BedrockClient: configuration and the request in progress
    trace,          \* remote invocations and sleeps of the request in progress
    service,        \* lambda_function._chat_service: "none", "full", "fallback"
    conversations,  \* ChatService.conversations / FallbackService.conversations
    cop             \* the last chat operation: arguments, calls made, response

procVars == <<ingest, threads, inflight, tracker>>
storeVars == <<documents, embeddings, retriever, embsvc, emb, sop, procVars>>
llmVars == <<llm, trace>>
chatVars == <<service, conversations, cop>>
vars == <<documents, embeddings, retriever, embsvc, emb, sop, procVars, llm,
          trace, service, conversations, cop>>

(***************************************************************************)
(* Bounds                                                                  *)
(***************************************************************************)
\* number of non-blank pages the bucket can yield
MaxDocs == 2
\* the objects listed in the bucket and the pages of one PDF
MaxObjects == 2
MaxPages == 2
\* EmbeddingService.default_dimension (1536 in the source), scaled down
DefaultDimension == 2
\* bits of a float's mantissa (53 in a Python float)
MantissaBits == 7

(***************************************************************************)
(* Python helpers                                                          *)
(***************************************************************************)
Min(a, b) == IF a <= b THEN a ELSE b
Max(a, b) == IF a >= b THEN a ELSE b

\* seq[:k] of Python, k possibly negative or past the end
SliceTo(seq, k) ==
    IF k >= 0 THEN SubSeq(seq, 1, Min(k, Len(seq)))
    ELSE SubSeq(seq, 1, Max(Len(seq) + k, 0))

\* seq[-k:] of Python for k >= 1
SliceLast(seq, k) ==
    SubSeq(seq, Max(Len(seq) - k, 0) + 1, Len(seq))

Range(seq) == {seq[i] : i \in 1..Len(seq)}

\* the sequences of exactly k distinct positions of 1..n: what
\* random.sample(population of n, k) can select, in every order
Samples(n, k) ==
    {s \in [1..k -> 1..n] : \A i, j \in 1..k : i # j => s[i] # s[j]}

(***************************************************************************)
(* Chunks and vectors                                                      *)
(***************************************************************************)
PageText == <<"text-1", "text-2", "text-3", "text-4", "text-5", "text-6">>

\* the chunk appended for page i of the bucket's PDF
Chunk(i) ==
    [content |-> PageText[i], source |-> "doc.pdf#page", page |-> i,
     file |-> "doc.pdf"]

\* every order-preserving selection of the pages: one page's extraction
\* may fail or yield blank text without stopping the load
LoadResults ==
    LET pick(S) == [i \in 1..Cardinality(S) |->
                      Chunk(CHOOSE p \in S :
                              Cardinality({q \in S : q < p}) = i - 1)]
    IN {pick(S) : S \in SUBSET (1..MaxDocs)}

ZeroVector == [i \in 1..DefaultDimension |-> 0]

\* the vectors the remote embedding model returns in this model
VectorPool == {ZeroVector, <<1, 0>>, <<0, 1>>}

\* BATCH_SIZE of the environment is any integer
BatchSizes == {-1, 0, 1, 2}

\* the EmbeddingService configurations: a client with each batch size, and
\* no client (bedrock_runtime is None), where the batch size is not read
EmbConfigs ==
    {[batch_size |-> b, has_runtime |-> TRUE] : b \in BatchSizes}
    \cup {[batch_size |-> 2, has_runtime |-> FALSE]}

\* the vectors a direct caller of store_embeddings supplies
SuppliedVectors == {<<1, 0>>, <<0, 1>>}

(***************************************************************************)
(* DocumentStore                                                           *)
(***************************************************************************)
\* what page.extract_text() gives for one page: a text, a blank text, or
\* an exception
PageOutcomes == {[text |-> "body"], [text |-> " "], [raises |-> TRUE]}

PageRaises(pg) == "raises" \in DOMAIN pg

\* `text and text.strip()` (line 161)
IsBlankText(text) == text \in {"", " "}

\* what one listed object is: the extension of its key, what download_file
\* does ("ok", "client_error", "error"), whether PdfReader parses the file,
\* and its pages
ObjectShapes ==
    LET pageSeqs == UNION {[1..n -> PageOutcomes] : n \in 0..MaxPages}
    IN {[ext |-> "txt", download |-> "ok", parse_ok |-> TRUE, pages |-> <<>>]}
       \cup {[ext |-> "pdf", download |-> d, parse_ok |-> TRUE,
              pages |-> <<>>] : d \in {"client_error", "error"}}
       \cup {[ext |-> "PDF", download |-> "ok", parse_ok |-> FALSE,
              pages |-> <<>>]}
       \cup {[ext |-> "pdf", download |-> "ok", parse_ok |-> TRUE,
              pages |-> ps] : ps \in pageSeqs}

\* the object listed at position k (keys of one bucket are distinct)
ObjectAt(k, shape) ==
    [key |-> [name |-> k, ext |-> shape.ext], download |-> shape.download,
     parse_ok |-> shape.parse_ok, pages |-> shape.pages]

\* the bucket: what head_bucket and list_objects_v2 do ("ok",
\* "client_error", "error"; "no_contents" for a response without
\* 'Contents'), and the listing
Bucket(head, list, shapes) ==
    [head |-> head, list |-> list,
     contents |-> <<>> \o [k \in 1..Len(shapes) |-> ObjectAt(k, shapes[k])]]

\* obj['Key'].lower().endswith('.pdf') (lines 111-112)
IsPdfKey(key) == key.ext \in {"pdf", "PDF"}

\* the page loop of _process_pdf (lines 155-171): a page whose extraction
\* raises, or whose text is blank, adds nothing and the loop goes on
page_chunks_stop_at_error(pdf_key, pages) ==
    LET RECURSIVE from(_)
        from(page_num) ==
            IF page_num >= Len(pages) THEN <<>>
            ELSE LET pg == pages[page_num + 1]
                 IN IF PageRaises(pg) THEN <<>>
                    ELSE IF ~IsBlankText(pg.text)
                    THEN <<[content |-> pg.text,
                            source |-> <<pdf_key, page_num + 1>>,
                            page |-> page_num + 1, file |-> pdf_key]>>
                         \o from(page_num + 1)
                    ELSE from(page_num + 1)
    IN from(0)

page_chunks(pdf_key, pages) ==
    LET RECURSIVE from(_)
        from(page_num) ==
            IF page_num >= Len(pages) THEN <<>>
            ELSE LET pg == pages[page_num + 1]
                 IN IF PageRaises(pg) THEN from(page_num + 1)
                    ELSE IF ~IsBlankText(pg.text)
                    THEN <<[content |-> pg.text,
                            source |-> <<pdf_key, page_num + 1>>,
                            page |-> page_num + 1, file |-> pdf_key]>>
                         \o from(page_num + 1)
                    ELSE from(page_num + 1)
    IN from(0)

\* _process_pdf (lines 132-188): the chunk list after the object; a
\* ClientError of download_file returns, any other exception is caught by
\* the outer except, a parse error by the except of line 172
process_pdf(docs, obj) ==
    IF obj.download # "ok" THEN docs
    ELSE IF ~obj.parse_ok THEN docs
    ELSE docs \o page_chunks(obj.key, obj.pages)

\* _load_documents (lines 95-130): the chunk list after the load
load_documents(bucket) ==
    LET RECURSIVE each(_, _)
        each(docs, k) ==
            IF k > Len(bucket.contents) THEN docs
            ELSE IF IsPdfKey(bucket.contents[k].key)
            THEN each(process_pdf(docs, bucket.contents[k]), k + 1)
            ELSE each(docs, k + 1)
    IN IF bucket.head # "ok" THEN <<>>
       ELSE IF bucket.list # "ok" THEN <<>>
       ELSE each(<<>>, 1)

\* store_embeddings: the pair (documents, embeddings) after the call
store_embeddings_nocut(docs, vs) ==
    [documents |-> docs, embeddings |-> vs]

store_embeddings(docs, vs) ==
    IF Len(vs) # Len(docs)
    THEN LET min_len == Min(Len(vs), Len(docs))
         IN [documents |-> SubSeq(docs, 1, min_len),
             embeddings |-> SubSeq(vs, 1, min_len)]
    ELSE [documents |-> docs, embeddings |-> vs]

(***************************************************************************)
(* Python floats: binary floating point, round to nearest, ties to even.   *)
(* A float is [m, e], standing for m * 2^e, with |m| < 2^MantissaBits (a   *)
(* double has 53 bits); floats are compared by value (FloatLess, FloatEq). *)
(***************************************************************************)
Pow2(n) ==
    LET RECURSIVE pw(_)
        pw(k) == IF k <= 0 THEN 1 ELSE 2 * pw(k - 1)
    IN pw(n)

FloatZero == [m |-> 0, e |-> 0]

\* the least and the first excluded magnitude of a mantissa
MantissaLow == Pow2(MantissaBits - 1)
MantissaHigh == Pow2(MantissaBits)

\* the float nearest to the rational num / den (den > 0)
RoundRat(num, den) ==
    LET hi == MantissaHigh
        lo == MantissaLow
        sgn == IF num < 0 THEN -1 ELSE 1
        RECURSIVE norm(_, _, _)
        norm(a, b, e) ==
            IF a >= b * hi THEN norm(a, 2 * b, e + 1)
            ELSE IF a < b * lo THEN norm(2 * a, b, e - 1)
            ELSE LET q == a \div b
                     r == a % b
                     up == 2 * r > b \/ (2 * r = b /\ q % 2 = 1)
                     q1 == IF up THEN q + 1 ELSE q
                 IN IF q1 = hi THEN [m |-> sgn * lo, e |-> e + 1]
                    ELSE [m |-> sgn * q1, e |-> e]
    IN IF num = 0 THEN FloatZero
       ELSE IF (sgn * num) % den = 0 /\ (sgn * num) \div den < hi
       THEN \* representable: no rounding
            [m |-> num \div den, e |-> 0]
       ELSE norm(sgn * num, den, 0)

\* a float as the rational num / den
FloatNum(x) == IF x.e >= 0 THEN x.m * Pow2(x.e) ELSE x.m
FloatDen(x) == IF x.e >= 0 THEN 1 ELSE Pow2(0 - x.e)

FloatAdd(x, y) ==
    RoundRat(FloatNum(x) * FloatDen(y) + FloatNum(y) * FloatDen(x),
             FloatDen(x) * FloatDen(y))

FloatMul(x, y) ==
    RoundRat(FloatNum(x) * FloatNum(y), FloatDen(x) * FloatDen(y))

\* x / y for y > 0
FloatDiv(x, y) ==
    RoundRat(FloatNum(x) * FloatDen(y), FloatDen(x) * FloatNum(y))

FloatLess(x, y) ==
    FloatNum(x) * FloatDen(y) < FloatNum(y) * FloatDen(x)

FloatEq(x, y) ==
    FloatNum(x) * FloatDen(y) = FloatNum(y) * FloatDen(x)

\* x ** 0.5 for x >= 0: the float nearest to the square root
FloatSqrt(x) ==
    LET hi == MantissaHigh * MantissaHigh
        lo == MantissaLow * MantissaLow
        RECURSIVE norm(_, _, _)
        norm(a, b, e) ==
            IF a >= b * hi THEN norm(a, 4 * b, e + 1)
            ELSE IF a < b * lo THEN norm(4 * a, b, e - 1)
            ELSE LET n == a \div b
                     q == CHOOSE k \in MantissaLow..MantissaHigh :
                            k * k <= n /\ n < (k + 1) * (k + 1)
                     mid == b * (4 * q * q + 4 * q + 1)
                     up == 4 * a > mid \/ (4 * a = mid /\ q % 2 = 1)
                     q1 == IF up THEN q + 1 ELSE q
                 IN IF q1 = MantissaHigh
                    THEN [m |-> MantissaLow, e |-> e + 1]
                    ELSE [m |-> q1, e |-> e]
        small == x.e = 0 /\ x.m < MantissaHigh
    IN IF x.m = 0 THEN FloatZero
       ELSE IF small /\ \E k \in 1..x.m : k * k = x.m
       THEN \* a representable root: no rounding
            [m |-> CHOOSE k \in 1..x.m : k * k = x.m, e |-> 0]
       ELSE norm(FloatNum(x), FloatDen(x), 0)

\* sum(a * b for a, b in zip(vec1, vec2)) over the first n components
Dot(a, b, n) ==
    LET RECURSIVE sum(_, _)
        sum(acc, i) ==
            IF i > n THEN acc
            ELSE sum(FloatAdd(acc, FloatMul(RoundRat(a[i], 1),
                                            RoundRat(b[i], 1))), i + 1)
    IN sum(FloatZero, 1)

\* _cosine_similarity (lines 255-285): both vectors cut to the shorter
\* length, 0 when the product of the magnitudes is 0, else
\* dot_product / (magnitude1 * magnitude2), each operation rounded
cosine_similarity(vec1, vec2) ==
    LET n == Min(Len(vec1), Len(vec2))
        dot_product == Dot(vec1, vec2, n)
        magnitude1 == FloatSqrt(Dot(vec1, vec1, n))
        magnitude2 == FloatSqrt(Dot(vec2, vec2, n))
        product == FloatMul(magnitude1, magnitude2)
    IN IF product.m = 0 THEN FloatZero
       ELSE FloatDiv(dot_product, product)

SimLess(x, y) == FloatLess(x, y)

\* sorted(range(n), key=similarities, reverse=True): a stable sort, equal
\* similarities keep their ingestion order
SortedIndices_ascending(sims) ==
    LET RECURSIVE ins(_, _)
        ins(seq, i) ==
            IF seq = <<>> THEN <<i>>
            ELSE IF SimLess(sims[i], sims[Head(seq)])
                 THEN <<i>> \o seq
                 ELSE <<Head(seq)>> \o ins(Tail(seq), i)
        RECURSIVE go(_, _)
        go(acc, i) == IF i > Len(sims) THEN acc ELSE go(ins(acc, i), i + 1)
    IN go(<<>>, 1)

SortedIndices(sims) ==
    LET RECURSIVE ins(_, _)
        ins(seq, i) ==
            IF seq = <<>> THEN <<i>>
            ELSE IF SimLess(sims[Head(seq)], sims[i])
                 THEN <<i>> \o seq
                 ELSE <<Head(seq)>> \o ins(Tail(seq), i)
        RECURSIVE go(_, _)
        go(acc, i) == IF i > Len(sims) THEN acc ELSE go(ins(acc, i), i + 1)
    IN go(<<>>, 1)

\* documents[i] for i in top_indices; an index past the end raises
\* IndexError, caught: []
documents_at(docs, top_indices) ==
    IF \E j \in 1..Len(top_indices) : top_indices[j] > Len(docs)
    THEN <<>>
    ELSE [j \in 1..Len(top_indices) |-> docs[top_indices[j]]]

top_indices_of(sims, top_k) ==
    SliceTo(SortedIndices(sims), Min(top_k, Len(sims)))

similarities_of(query_embedding, embs) ==
    <<>> \o [i \in 1..Len(embs) |->
               cosine_similarity(query_embedding, embs[i])]

search_similar(docs, embs, query_embedding, top_k) ==
    IF embs = <<>> \/ docs = <<>> THEN <<>>
    ELSE IF query_embedding = <<>> THEN <<>>
    ELSE documents_at(docs,
             top_indices_of(similarities_of(query_embedding, embs), top_k))

(***************************************************************************)
(* EmbeddingService                                                        *)
(***************************************************************************)
\* EmbeddingService.__init__: self.max_retries = 3 (line 37)
EmbMaxRetries == 3

EmbOff == [pc |-> "off"]

\* no load, no store thread and no overlapping call in this specification
NoIngest == [pc |-> "off"]
NoThreads == [lock |-> "none"]
NoInflight == <<>>

\* CostTracker(): the state reset() leaves. Amounts of money are whole
\* numbers of 10^-9 USD.
NoTracker ==
    [start_time |-> "None", end_time |-> "None", lambda_memory_mb |-> 0,
     costs |-> [lambda |-> 0, api_gateway |-> 0, bedrock |-> 0, s3 |-> 0,
                cloudwatch |-> 0, total |-> 0],
     usage |-> [lambda_duration_ms |-> 0, lambda_gb_seconds |-> 0,
                bedrock_input_tokens |-> 0, bedrock_output_tokens |-> 0,
                bedrock_model |-> "", s3_get_requests |-> 0],
     calls |-> 0]

\* the error codes _get_embedding retries (line 217)
EmbRetryableCodes ==
    {"ThrottlingException", "ServiceUnavailableException",
     "ModelNotReadyException"}

\* what one invoke_model call of _get_embedding can do: answer with an
\* embedding (<<>>: the response has none), raise ClientError with a code,
\* raise ConnectionError, raise another exception
EmbOutcomes ==
    {[kind |-> "success", embedding |-> v] : v \in {<<1, 0>>, <<0, 1>>, <<>>}}
    \cup {[kind |-> "client_error", code |-> c] :
            c \in EmbRetryableCodes \cup {"ValidationException"}}
    \cup {[kind |-> "connection_error"], [kind |-> "exception"]}

\* `while retry_attempt <= self.max_retries` (line 181); leaving the loop
\* returns the zero vector (lines 245-247)
emb_loop_test_once_more(st) ==
    IF st.retry_attempt <= EmbMaxRetries + 1 THEN [st EXCEPT !.pc = "loop"]
    ELSE [st EXCEPT !.pc = "returned", !.result = ZeroVector]

emb_loop_test(st) ==
    IF st.retry_attempt <= EmbMaxRetries THEN [st EXCEPT !.pc = "loop"]
    ELSE [st EXCEPT !.pc = "returned", !.result = ZeroVector]

\* _get_embedding up to its first remote call (lines 157-191)
get_embedding_start(svc, text_blank) ==
    LET base == [pc |-> "loop", text_blank |-> text_blank,
                 retry_attempt |-> 0, invocations |-> 0, sleeps |-> 0,
                 result |-> <<>>, log |-> <<>>]
    IN IF text_blank \/ ~svc.has_runtime
       THEN [base EXCEPT !.pc = "returned", !.result = ZeroVector]
       ELSE base

\* one pass of the loop body (lines 182-243) with the given remote outcome
get_embedding_step(st0, out) ==
    LET st == [st0 EXCEPT !.invocations = @ + 1, !.log = Append(@, out)]
        retry == emb_loop_test([st EXCEPT !.sleeps = @ + 1,
                                          !.retry_attempt = @ + 1])
        break == [st EXCEPT !.pc = "returned", !.result = ZeroVector]
        other == IF st.retry_attempt < EmbMaxRetries THEN retry ELSE break
    IN IF out.kind = "success"
       THEN IF out.embedding # <<>>
            THEN [st EXCEPT !.pc = "returned", !.result = out.embedding]
            ELSE \* EmbeddingServiceError, caught by `except Exception`
                 other
       ELSE IF out.kind = "client_error"
       THEN IF out.code \in EmbRetryableCodes THEN retry ELSE break
       ELSE IF out.kind = "connection_error" THEN retry
       ELSE other

embed_documents_failures_dropped(texts, svc, res) ==
    IF texts = <<>> THEN [raised |-> FALSE, value |-> <<>>]
    ELSE IF ~svc.has_runtime
    THEN [raised |-> FALSE, value |-> <<>>]
    ELSE IF svc.batch_size = 0
    THEN \* range(0, len(texts), 0) raises ValueError
         [raised |-> TRUE, value |-> <<>>]
    ELSE IF svc.batch_size < 0
    THEN \* range(0, len(texts), negative) is empty
         [raised |-> FALSE, value |-> <<>>]
    ELSE LET RECURSIVE batches(_)
             batches(i) ==
                 IF i > Len(texts) THEN <<>>
                 ELSE [j \in 1..(Min(i + svc.batch_size - 1, Len(texts)) - i + 1)
                         |-> res[i + j - 1]]
                      \o batches(i + svc.batch_size)
         IN [raised |-> FALSE,
             value |-> IF \A k \in 1..Len(texts) : res[k] = ZeroVector
                       THEN <<>> ELSE batches(1)]

\* embed_documents; res[i] is what _get_embedding returns for texts[i]
\* (the remote vector, or the zero vector when every attempt failed)
embed_documents(texts, svc, res) ==
    IF texts = <<>> THEN [raised |-> FALSE, value |-> <<>>]
    ELSE IF ~svc.has_runtime
    THEN [raised |-> FALSE, value |-> [i \in 1..Len(texts) |-> ZeroVector]]
    ELSE IF svc.batch_size = 0
    THEN \* range(0, len(texts), 0) raises ValueError
         [raised |-> TRUE, value |-> <<>>]
    ELSE IF svc.batch_size < 0
    THEN \* range(0, len(texts), negative) is empty
         [raised |-> FALSE, value |-> <<>>]
    ELSE LET RECURSIVE batches(_)
             batches(i) ==
                 IF i > Len(texts) THEN <<>>
                 ELSE [j \in 1..(Min(i + svc.batch_size - 1, Len(texts)) - i + 1)
                         |-> res[i + j - 1]]
                      \o batches(i + svc.batch_size)
         IN [raised |-> FALSE, value |-> batches(1)]

\* embed_query; remote is what _get_embedding returns for the text
embed_query_empty_on_failure(text_blank, svc, remote) ==
    IF text_blank THEN ZeroVector
    ELSE IF ~svc.has_runtime THEN ZeroVector
    ELSE IF remote = ZeroVector THEN <<>>
    ELSE remote

embed_query(text_blank, svc, remote) ==
    IF text_blank THEN ZeroVector
    ELSE IF ~svc.has_runtime THEN ZeroVector
    ELSE remote

(***************************************************************************)
(* Retriever                                                               *)
(***************************************************************************)
Contents(docs) == [i \in 1..Len(docs) |-> docs[i].content]

\* the calls one retrieve makes: _initialize_embeddings, embed_documents,
\* store_embeddings, embed_query
NoCalls == [init |-> 0, embed_documents |-> 0, store_embeddings |-> 0, embed_query |-> 0]

\* _initialize_embeddings: the retriever and the store after the call,
\* whether it raised RetrieverError, and the calls it made
initialize_embeddings(ret, docs, embs, svc, res) ==
    IF ret.documents = <<>>
    THEN [retriever |-> ret, documents |-> docs, embeddings |-> embs,
          raised |-> FALSE, calls |-> [NoCalls EXCEPT !.init = 1]]
    ELSE LET e == embed_documents(Contents(ret.documents), svc, res)
         IN IF e.raised
            THEN [retriever |-> [ret EXCEPT !.is_embedding_initialized = FALSE],
                  documents |-> docs, embeddings |-> embs, raised |-> TRUE,
                  calls |-> [NoCalls EXCEPT !.init = 1, !.embed_documents = 1]]
            ELSE IF e.value = <<>>
            THEN [retriever |-> ret, documents |-> docs, embeddings |-> embs,
                  raised |-> FALSE,
                  calls |-> [NoCalls EXCEPT !.init = 1, !.embed_documents = 1]]
            ELSE LET st == store_embeddings(docs, e.value)
                 IN [retriever |-> [ret EXCEPT !.is_embedding_initialized = TRUE],
                     documents |-> st.documents, embeddings |-> st.embeddings,
                     raised |-> FALSE,
                     calls |-> [NoCalls EXCEPT !.init = 1, !.embed_documents = 1,
                                               !.store_embeddings = 1]]

\* the per-item results _get_embedding can give for the snapshot's texts
ItemResults(ret) == [1..Len(ret.documents) -> VectorPool]

\* Retriever.__init__: snapshot of the store's chunks, then the eager
\* initialisation, whose exception is caught and logged
retriever_init(docs, embs, svc, res) ==
    LET r0 == [constructed |-> TRUE, documents |-> docs,
               is_embedding_initialized |-> FALSE]
    IN IF docs = <<>>
       THEN [retriever |-> r0, documents |-> docs, embeddings |-> embs]
       ELSE LET i == initialize_embeddings(r0, docs, embs, svc, res)
            IN [retriever |-> i.retriever, documents |-> i.documents,
                embeddings |-> i.embeddings]

\* random.sample(docs, min(top_k, len(docs))): every selection in every
\* order; a negative sample size raises ValueError
sample_docs_first(docs, top_k) ==
    LET k == Min(top_k, Len(docs))
    IN IF k < 0 THEN {[raised |-> TRUE, result |-> <<>>]}
       ELSE {[raised |-> FALSE, result |-> SubSeq(docs, 1, Max(k - 1, 0))]}

sample_docs(docs, top_k) ==
    LET k == Min(top_k, Len(docs))
    IN IF k < 0 THEN {[raised |-> TRUE, result |-> <<>>]}
       ELSE {[raised |-> FALSE, result |-> [j \in 1..k |-> docs[s[j]]]] :
               s \in Samples(Len(docs), k)}

\* retrieve's test before _initialize_embeddings: the flag is false and the
\* caller allows a retry
NeedsEmbeddingInit_every_call(ret, retry_init) == retry_init

NeedsEmbeddingInit(ret, retry_init) == ~ret.is_embedding_initialized /\ retry_init

\* Retriever.retrieve: the set of its possible outcomes. The embed-and-search
\* path cannot raise with this EmbeddingService and DocumentStore (both
\* catch their own exceptions), so its except branch is not entered.
retrieve(query_blank, top_k, retry_init, ret, docs, embs, svc) ==
    IF query_blank
    THEN {[result |-> <<>>, raised |-> FALSE, retriever |-> ret,
           documents |-> docs, embeddings |-> embs, embed_failed |-> FALSE,
           calls |-> NoCalls]}
    ELSE LET afterInit ==
                 IF NeedsEmbeddingInit(ret, retry_init)
                 THEN {initialize_embeddings(ret, docs, embs, svc, res) :
                         res \in ItemResults(ret)}
                 ELSE {[retriever |-> ret, documents |-> docs,
                        embeddings |-> embs, raised |-> FALSE,
                        calls |-> NoCalls]}
             finish(a) ==
                 IF ~a.retriever.is_embedding_initialized
                 THEN IF a.documents # <<>>
                      THEN {[result |-> smp.result, raised |-> smp.raised,
                             retriever |-> a.retriever,
                             documents |-> a.documents,
                             embeddings |-> a.embeddings,
                             embed_failed |-> FALSE, calls |-> a.calls] :
                              smp \in sample_docs(a.documents, top_k)}
                      ELSE {[result |-> <<>>, raised |-> FALSE,
                             retriever |-> a.retriever,
                             documents |-> a.documents,
                             embeddings |-> a.embeddings,
                             embed_failed |-> FALSE, calls |-> a.calls]}
                 ELSE {[result |-> search_similar(a.documents, a.embeddings,
                                       embed_query(FALSE, svc, remote), top_k),
                        raised |-> FALSE, retriever |-> a.retriever,
                        documents |-> a.documents,
                        embeddings |-> a.embeddings,
                        \* every invocation of _get_embedding raised
                        embed_failed |-> svc.has_runtime /\ remote = ZeroVector,
                        calls |-> [a.calls EXCEPT !.embed_query = 1]] :
                        remote \in VectorPool}
         IN UNION {finish(a) : a \in afterInit}

(***************************************************************************)
(* Texts and JSON                                                          *)
(*                                                                         *)
(* A Python str that the code parses or serialises is a record:            *)
(*   form "raw":  the literal tagged s, which is not a JSON document       *)
(*   form "json": the serialisation of the dict obj; sp tells whether it   *)
(*                is spelled as json.dumps spells it ("key": value)        *)
(* A dict is a function from its keys.                                     *)
(***************************************************************************)
Raw(tag) == [form |-> "raw", s |-> tag]

\* json.dumps(obj, ensure_ascii=False)
Dumps(obj) == [form |-> "json", obj |-> obj, sp |-> TRUE]

\* json.loads(text): ok is FALSE for JSONDecodeError
Loads(text) ==
    IF text.form = "json" THEN [ok |-> TRUE, obj |-> text.obj]
    ELSE [ok |-> FALSE, obj |-> <<>>]

\* the characters of the raw literals of at most two characters; every
\* other raw tag names a literal of three characters or more
ShortChars == [t \in {"ok"} |-> <<"o", "k">>] @@ [t \in {""} |-> <<>>]

\* the raw literals whose first character is "{" (none ends with "}")
BraceLiterals == {"{broken", "{"}

StartsWithBrace(text) ==
    IF text.form = "json" THEN TRUE ELSE text.s \in BraceLiterals

EndsWithBrace(text) ==
    IF text.form = "json" THEN TRUE ELSE FALSE

\* '"sources":' in text
ContainsSourcesKey(text) ==
    text.form = "json" /\ "sources" \in DOMAIN text.obj

\* '"answer": "{' in text
ContainsAnswerBrace(text) ==
    /\ text.form = "json"
    /\ text.sp
    /\ "answer" \in DOMAIN text.obj
    /\ StartsWithBrace(text.obj.answer)

\* `a, b = text`: a str of exactly two characters unpacks into its two
\* characters, any other length raises ValueError
Unpack2(text) ==
    IF text.form = "raw" /\ text.s \in DOMAIN ShortChars
       /\ Len(ShortChars[text.s]) = 2
    THEN [ok |-> TRUE, first |-> Raw(ShortChars[text.s][1]),
          second |-> Raw(ShortChars[text.s][2])]
    ELSE [ok |-> FALSE, first |-> Raw(""), second |-> Raw("")]

\* what the remote chat model answers in this model
ModelTexts ==
    {Raw("plain-answer"), Raw("ok"), Raw("{broken"),
     Dumps([answer |-> Raw("X"), sources |-> <<>>]),
     Dumps([answer |-> Raw("X")]),
     Dumps([note |-> Raw("N")]),
     Dumps([answer |-> Dumps([answer |-> Raw("Y"), sources |-> <<>>]),
            sources |-> <<>>])}

(***************************************************************************)
(* BedrockClient                                                           *)
(***************************************************************************)
Haiku == "anthropic.claude-3-haiku-20240307-v1:0"
Instant == "anthropic.claude-instant-v1"

\* bedrock_client.py:144 (and lambda_function.py:92)
SORRY_NO_CLIENT == Raw("SORRY_CURRENTLY_TEMPORARY_SERVICE_PROBLEM")
\* bedrock_client.py:304
SORRY_CANNOT_GENERATE == Raw("SORRY_CANNOT_GENERATE_RETRY_LATER")
\* bedrock_client.py:306
SORRY_SERVICE_PROBLEM == Raw("SORRY_TEMPORARY_SERVICE_PROBLEM")

RetryableCodes ==
    {"ThrottlingException", "ServiceUnavailableException",
     "ModelNotReadyException"}

ErrorCodes == RetryableCodes \cup {"ValidationException"}

\* BedrockClient.__init__: the model is chosen by SMART_MODE / FAST_MODE
bedrock_client_init(mode, has_runtime) ==
    [model_id |-> IF mode = "smart" THEN Haiku
                  ELSE IF mode = "fast" THEN Instant ELSE Haiku,
     fallback_model_id |-> Instant,
     max_retries |-> 2,
     has_runtime |-> has_runtime]

LlmModes == {"smart", "fast", "default"}

\* lines 182-229: the success path's rewrite of a JSON answer
format_json_response(text, is_json_response) ==
    IF ~(is_json_response /\ ContainsSourcesKey(text)) THEN text
    ELSE LET outer == Loads(text)
             inner_str == outer.obj.answer
             inner == Loads(inner_str)
             t1 == IF /\ StartsWithBrace(text) /\ ContainsAnswerBrace(text)
                      /\ outer.ok /\ "answer" \in DOMAIN outer.obj
                      /\ StartsWithBrace(inner_str) /\ EndsWithBrace(inner_str)
                      /\ inner.ok
                      /\ "answer" \in DOMAIN inner.obj
                      /\ "sources" \in DOMAIN inner.obj
                   THEN inner_str ELSE text
             parsed == Loads(t1)
             fix(src) ==
                 IF "page" \in DOMAIN src
                 THEN LET rest == [k \in DOMAIN src \ {"page"} |-> src[k]]
                      IN IF src.page # ""
                         THEN [k \in DOMAIN rest \cup {"contents"} |->
                                 IF k = "contents" THEN <<src.page>>
                                 ELSE rest[k]]
                         ELSE rest
                 ELSE src
         IN IF ~parsed.ok THEN t1
            ELSE IF "sources" \in DOMAIN parsed.obj
            THEN Dumps([parsed.obj EXCEPT !.sources =
                          [i \in 1..Len(parsed.obj.sources) |->
                             fix(parsed.obj.sources[i])]])
            ELSE t1

\* the result returned when the retry loop is left without an answer
degraded_response(history_has_content) ==
    IF history_has_content THEN SORRY_CANNOT_GENERATE
    ELSE SORRY_SERVICE_PROBLEM

\* a result of generate_response: kind "text" (returned str) or "raise";
\* origin tells where the str comes from, model_text is the remote text
NoResult == [kind |-> "none", text |-> Raw(""), origin |-> "none",
             model_text |-> Raw("")]

TextResult(text, origin, model_text) ==
    [kind |-> "text", text |-> text, origin |-> origin,
     model_text |-> model_text]

\* generate_response up to the first remote call
generate_start(cfg, history_has_content, is_json_response) ==
    LET base == [cfg |-> cfg, history_has_content |-> history_has_content,
                 is_json_response |-> is_json_response,
                 use_model_id |-> cfg.model_id, retry_attempt |-> 0,
                 tried_fallback |-> FALSE, invocations |-> 0, sleeps |-> 0,
                 pc |-> "loop", result |-> NoResult]
    IN IF ~cfg.has_runtime
       THEN [base EXCEPT !.pc = "returned",
                         !.result = TextResult(SORRY_NO_CLIENT, "no_client",
                                               Raw(""))]
       ELSE base

loop_test_two_more(st) ==
    IF st.retry_attempt <= st.cfg.max_retries + 2 THEN st
    ELSE [st EXCEPT !.pc = "returned",
                    !.result = TextResult(
                        degraded_response(st.history_has_content),
                        "degraded", Raw(""))]

loop_test_once_more(st) ==
    IF st.retry_attempt <= st.cfg.max_retries + 1 THEN st
    ELSE [st EXCEPT !.pc = "returned",
                    !.result = TextResult(
                        degraded_response(st.history_has_content),
                        "degraded", Raw(""))]

\* the `while retry_attempt <= self.max_retries` test after a handler
loop_test(st) ==
    IF st.retry_attempt <= st.cfg.max_retries THEN st
    ELSE [st EXCEPT !.pc = "returned",
                    !.result = TextResult(
                        degraded_response(st.history_has_content),
                        "degraded", Raw(""))]

CanSwitch_any_model(st) == ~st.tried_fallback

CanSwitch(st) ==
    ~st.tried_fallback /\ st.use_model_id # st.cfg.fallback_model_id

SwitchToFallback_as_retry(st) ==
    [st EXCEPT !.use_model_id = st.cfg.fallback_model_id,
               !.tried_fallback = TRUE, !.sleeps = @ + 1,
               !.retry_attempt = @ + 1]

SwitchToFallback(st) ==
    [st EXCEPT !.use_model_id = st.cfg.fallback_model_id,
               !.tried_fallback = TRUE]

BackoffAndRetry_on_primary(st) ==
    [st EXCEPT !.sleeps = @ + 1, !.retry_attempt = @ + 1,
               !.use_model_id = st.cfg.model_id]

BackoffAndRetry(st) ==
    [st EXCEPT !.sleeps = @ + 1, !.retry_attempt = @ + 1]

\* one pass of the loop body: the remote call with its outcome
\*   [kind |-> "success", text |-> T]
\*   [kind |-> "client_error", code |-> c]
\*   [kind |-> "connection_error"]
\*   [kind |-> "exception"]
generate_step(st0, out) ==
    LET st == [st0 EXCEPT !.invocations = @ + 1]
    IN IF out.kind = "success"
       THEN [st EXCEPT !.pc = "returned",
                       !.result = TextResult(
                           format_json_response(out.text, st.is_json_response),
                           "model", out.text)]
       ELSE IF out.kind = "client_error"
       THEN IF out.code \in RetryableCodes
            THEN IF CanSwitch(st) THEN SwitchToFallback(st)
                 ELSE loop_test(BackoffAndRetry(st))
            ELSE IF CanSwitch(st) THEN SwitchToFallback(st)
                 ELSE [st EXCEPT !.pc = "raised",
                                 !.result = [kind |-> "raise",
                                             text |-> Raw("BedrockClientError"),
                                             origin |-> "raise",
                                             model_text |-> Raw("")]]
       ELSE IF out.kind = "connection_error"
       THEN IF CanSwitch(st) THEN SwitchToFallback(st)
            ELSE loop_test(BackoffAndRetry(st))
       ELSE IF CanSwitch(st) THEN SwitchToFallback(st)
            ELSE IF st.retry_attempt < st.cfg.max_retries
                 THEN loop_test(BackoffAndRetry(st))
                 ELSE [st EXCEPT !.pc = "returned",
                          !.result = TextResult(
                              degraded_response(st.history_has_content),
                              "degraded", Raw(""))]

Outcomes ==
    {[kind |-> "success", text |-> t] : t \in ModelTexts}
    \cup {[kind |-> "client_error", code |-> c] : c \in ErrorCodes}
    \cup {[kind |-> "connection_error"], [kind |-> "exception"]}

(***************************************************************************)
(* SpecStore: the document store and the retriever                         *)
(***************************************************************************)
TopKs == (-1)..(MaxDocs + 1)

NoRetriever ==
    [constructed |-> FALSE, documents |-> <<>>,
     is_embedding_initialized |-> FALSE]

NoStoreOp ==
    [op |-> "none", arg |-> <<>>, top_k |-> 0, retry_init |-> FALSE,
     query_blank |-> FALSE, docs_before |-> <<>>, init_before |-> FALSE,
     result |-> <<>>, raised |-> FALSE, embed_failed |-> FALSE,
     calls |-> NoCalls]

\* DocumentStore.store_embeddings called with any list of vectors
Call_store_embeddings ==
    \E n \in 0..(MaxDocs + 1) : \E vs \in [1..n -> SuppliedVectors] :
        LET st == store_embeddings(documents, vs)
        IN /\ documents' = st.documents
           /\ embeddings' = st.embeddings
           /\ sop' = [NoStoreOp EXCEPT !.op = "store_embeddings", !.arg = vs,
                                       !.docs_before = documents]
           /\ UNCHANGED <<retriever, embsvc, emb, procVars>>

\* Retriever(document_store, embedding_service)
Call_retriever_init ==
    /\ ~retriever.constructed
    /\ \E res \in [1..Len(documents) -> VectorPool] :
        LET r == retriever_init(documents, embeddings, embsvc, res)
        IN /\ retriever' = r.retriever
           /\ documents' = r.documents
           /\ embeddings' = r.embeddings
           /\ sop' = [NoStoreOp EXCEPT !.op = "retriever_init",
                                       !.docs_before = documents]
    /\ UNCHANGED <<embsvc, emb, procVars>>

\* Retriever.retrieve(query, top_k, retry_init)
Call_retrieve ==
    /\ retriever.constructed
    /\ \E qb \in BOOLEAN, k \in TopKs, ri \in BOOLEAN :
        \E o \in retrieve(qb, k, ri, retriever, documents, embeddings, embsvc) :
            /\ retriever' = o.retriever
            /\ documents' = o.documents
            /\ embeddings' = o.embeddings
            /\ sop' = [NoStoreOp EXCEPT !.op = "retrieve", !.top_k = k,
                          !.retry_init = ri, !.query_blank = qb,
                          !.docs_before = documents,
                          !.init_before = retriever.is_embedding_initialized,
                          !.result = o.result, !.raised = o.raised,
                          !.embed_failed = o.embed_failed,
                          !.calls = o.calls]
    /\ UNCHANGED <<embsvc, emb, procVars>>

\* DocumentStore.search_similar(query_embedding, top_k)
Call_search_similar ==
    /\ \E q \in VectorPool \cup {<<>>}, k \in TopKs :
        sop' = [NoStoreOp EXCEPT !.op = "search_similar", !.arg = <<q>>,
                   !.top_k = k, !.docs_before = documents,
                   !.result = search_similar(documents, embeddings, q, k)]
    /\ UNCHANGED <<documents, embeddings, retriever, embsvc, emb, procVars>>

\* EmbeddingService.embed_documents on the first n loaded texts; res[i] is
\* what _get_embedding returns for texts[i]
Call_embed_documents ==
    /\ \E n \in 0..Len(documents) :
         \E res \in [1..n -> VectorPool] :
            LET texts == SubSeq(Contents(documents), 1, n)
                r == embed_documents(texts, embsvc, res)
            IN sop' = [NoStoreOp EXCEPT !.op = "embed_documents",
                          !.arg = <<texts, res>>, !.result = r.value,
                          !.raised = r.raised]
    /\ UNCHANGED <<documents, embeddings, retriever, embsvc, emb, procVars>>

LlmOff == [pc |-> "off"]

NoChatOp == [op |-> "none", session_id |-> ""]

InitStore ==
    /\ documents \in LoadResults
    /\ embeddings = <<>>
    /\ retriever = NoRetriever
    /\ embsvc \in EmbConfigs
    /\ emb = EmbOff
    /\ ingest = NoIngest
    /\ threads = NoThreads
    /\ inflight = NoInflight
    /\ tracker = NoTracker
    /\ sop = NoStoreOp
    /\ llm = LlmOff
    /\ trace = <<>>
    /\ service = "none"
    /\ conversations = <<>>
    /\ cop = NoChatOp

NextStore ==
    \/ Call_store_embeddings /\ UNCHANGED <<llmVars, chatVars>>
    \/ Call_retriever_init /\ UNCHANGED <<llmVars, chatVars>>
    \/ Call_retrieve /\ UNCHANGED <<llmVars, chatVars>>
    \/ Call_search_similar /\ UNCHANGED <<llmVars, chatVars>>

SpecStore == InitStore /\ [][NextStore]_vars

\* embed_documents on its own, over the same initial states
NextEmbedDocuments == Call_embed_documents /\ UNCHANGED <<llmVars, chatVars>>

SpecEmbedDocuments == InitStore /\ [][NextEmbedDocuments]_vars

\* C1: after any store_embeddings(vectors), for vectors shorter than, as
\* long as or longer than the chunk list, len(embeddings) = len(documents),
\* and embedding i is the vector supplied at index i for the chunk that was
\* and still is at index i.
C1_ParallelAfterStore ==
    sop.op = "store_embeddings" =>
        /\ Len(embeddings) = Len(documents)
        /\ \A i \in 1..Len(embeddings) :
            /\ embeddings[i] = sop.arg[i]
            /\ documents[i] = sop.docs_before[i]

C1_Witness ==
    /\ sop.op = "store_embeddings"
    /\ Len(sop.arg) > Len(sop.docs_before)
    /\ Len(sop.docs_before) >= 2
    /\ embeddings[1] # embeddings[2]

\* C6: retrieve on a non-blank query returns [] when the store has no
\* chunk; when the store has chunks and the embeddings are still not
\* initialised after the call (re-initialisation failed or was disabled) it
\* returns, for top_k >= 1, min(top_k, number of chunks) distinct chunks of
\* the store, hence a non-empty sample.
C6_FallbackLaw ==
    (sop.op = "retrieve" /\ ~sop.query_blank) =>
        /\ sop.docs_before = <<>> => (sop.result = <<>> /\ ~sop.raised)
        /\ (/\ sop.docs_before # <<>>
            /\ ~retriever.is_embedding_initialized
            /\ sop.top_k >= 1)
           => /\ ~sop.raised
              /\ Len(sop.result) = Min(sop.top_k, Len(sop.docs_before))
              /\ Len(sop.result) >= 1
              /\ Range(sop.result) \subseteq Range(sop.docs_before)
              /\ \A i, j \in 1..Len(sop.result) :
                    i # j => sop.result[i] # sop.result[j]

\* every stored vector is the all-zero default vector
AllZeroEmbeddings ==
    /\ Len(embeddings) >= 1
    /\ \A i \in 1..Len(embeddings) : embeddings[i] = ZeroVector

C6_Witness ==
    /\ sop.op = "retrieve"
    /\ ~sop.query_blank
    /\ Len(sop.docs_before) = 2
    /\ ~retriever.is_embedding_initialized
    /\ sop.top_k = 1
    /\ Len(sop.result) = 1

IdleLlm(cfg) ==
    [cfg |-> cfg, history_has_content |-> FALSE, is_json_response |-> FALSE,
     use_model_id |-> cfg.model_id, retry_attempt |-> 0,
     tried_fallback |-> FALSE, invocations |-> 0, sleeps |-> 0,
     pc |-> "idle", result |-> NoResult]

\* generate_response(system_prompt, conversation_history) is called
Call_generate_response ==
    /\ llm.pc \in {"idle", "returned", "raised"}
    /\ \E h \in BOOLEAN, j \in BOOLEAN :
        llm' = generate_start(llm.cfg, h, j)
    /\ trace' = <<>>

\* the remote call of the loop body, with the given outcome
Remote(out, label) ==
    /\ llm.pc = "loop"
    /\ llm' = generate_step(llm, out)
    /\ trace' = Append(trace, [model |-> llm.use_model_id, outcome |-> label,
                               slept |-> llm'.sleeps > llm.sleeps])

Remote_success ==
    \E t \in ModelTexts : Remote([kind |-> "success", text |-> t], "success")

Remote_client_error ==
    \E c \in ErrorCodes : Remote([kind |-> "client_error", code |-> c], c)

Remote_connection_error ==
    Remote([kind |-> "connection_error"], "ConnectionError")

Remote_exception ==
    Remote([kind |-> "exception"], "Exception")

InitLLM ==
    /\ \E m \in LlmModes, rt \in BOOLEAN :
        llm = IdleLlm(bedrock_client_init(m, rt))
    /\ trace = <<>>
    /\ documents = <<>>
    /\ embeddings = <<>>
    /\ retriever = NoRetriever
    /\ embsvc = [batch_size |-> 2, has_runtime |-> FALSE]
    /\ emb = EmbOff
    /\ ingest = NoIngest
    /\ threads = NoThreads
    /\ inflight = NoInflight
    /\ tracker = NoTracker
    /\ sop = NoStoreOp
    /\ service = "none"
    /\ conversations = <<>>
    /\ cop = NoChatOp

NextLLM ==
    \/ Call_generate_response /\ UNCHANGED <<storeVars, chatVars>>
    \/ Remote_success /\ UNCHANGED <<storeVars, chatVars>>
    \/ Remote_client_error /\ UNCHANGED <<storeVars, chatVars>>
    \/ Remote_connection_error /\ UNCHANGED <<storeVars, chatVars>>
    \/ Remote_exception /\ UNCHANGED <<storeVars, chatVars>>

SpecLLM == InitLLM /\ [][NextLLM]_vars

\* invoke_model returns or raises (the client's timeouts), so a request in
\* its loop always takes its next step
RemoteStep ==
    (Remote_success \/ Remote_client_error \/ Remote_connection_error
       \/ Remote_exception) /\ UNCHANGED <<storeVars, chatVars>>

SpecLLMLive == SpecLLM /\ WF_vars(RemoteStep)

AllThrottled ==
    /\ trace # <<>>
    /\ \A i \in 1..Len(trace) : trace[i].outcome = "ThrottlingException"

\* C5: with the primary model equal to the fallback model and every remote
\* invocation failing with ThrottlingException, generate_response makes
\* exactly max_retries + 1 invocations, then returns the degraded-service
\* string and does not raise.
C5_ThrottledNoFallback ==
    (/\ llm.cfg.has_runtime
     /\ llm.cfg.model_id = llm.cfg.fallback_model_id
     /\ AllThrottled)
    => /\ llm.pc # "raised"
       /\ Len(trace) <= llm.cfg.max_retries + 1
       /\ llm.pc = "loop" <=> Len(trace) < llm.cfg.max_retries + 1
       /\ llm.pc = "returned" =>
            /\ Len(trace) = llm.cfg.max_retries + 1
            /\ llm.result.kind = "text"
            /\ llm.result.text =
                 IF llm.history_has_content
                 THEN Raw("SORRY_CANNOT_GENERATE_RETRY_LATER")
                 ELSE Raw("SORRY_TEMPORARY_SERVICE_PROBLEM")

C5_Witness ==
    /\ llm.cfg.has_runtime
    /\ llm.cfg.model_id = llm.cfg.fallback_model_id
    /\ AllThrottled
    /\ llm.pc = "returned"
    /\ Len(trace) = 3
    /\ llm.history_has_content

\* invocation i of the request was made on the primary model, no earlier
\* one on the fallback model, and a distinct fallback model exists
OnPrimaryBeforeFallback(i) ==
    /\ llm.cfg.model_id # llm.cfg.fallback_model_id
    /\ \A j \in 1..i : trace[j].model = llm.cfg.model_id

\* C22: when an invocation of the primary model fails with a retryable
\* error and a distinct fallback model has not yet been tried in this
\* request, the very next invocation targets the fallback model, with no
\* backoff sleep in between and without consuming a retry attempt.
C22_ImmediateFallback ==
    \A i \in 1..Len(trace) :
        (/\ OnPrimaryBeforeFallback(i)
         /\ trace[i].outcome \in {"ThrottlingException",
                                  "ServiceUnavailableException",
                                  "ModelNotReadyException"})
        => /\ ~trace[i].slept
           /\ i < Len(trace) => trace[i + 1].model = llm.cfg.fallback_model_id
           /\ i = Len(trace) =>
                /\ llm.pc = "loop"
                /\ llm.use_model_id = llm.cfg.fallback_model_id
                /\ llm.retry_attempt = 0
                /\ llm.sleeps = 0

\* a throttled primary invocation followed by an invocation of the fallback
C22_Witness ==
    /\ Len(trace) >= 2
    /\ OnPrimaryBeforeFallback(1)
    /\ trace[1].outcome = "ThrottlingException"
    /\ trace[2].model = llm.cfg.fallback_model_id
    /\ ~trace[1].slept

\* C23: a non-retryable ClientError switches to the fallback model and
\* retries when a distinct fallback has not yet been tried; when the
\* fallback was already tried or is the current model, the same error makes
\* generate_response raise BedrockClientError at once: no further
\* invocation and no degraded-service string.
C23_NonRetryable ==
    \A i \in 1..Len(trace) :
        trace[i].outcome = "ValidationException" =>
            IF trace[i].model # llm.cfg.fallback_model_id
            THEN /\ ~trace[i].slept
                 /\ i < Len(trace) =>
                      trace[i + 1].model = llm.cfg.fallback_model_id
                 /\ i = Len(trace) =>
                      /\ llm.pc = "loop"
                      /\ llm.use_model_id = llm.cfg.fallback_model_id
            ELSE /\ i = Len(trace)
                 /\ llm.pc = "raised"
                 /\ llm.result.kind = "raise"
                 /\ llm.invocations = i

\* the primary model and then the fallback model both answer with a
\* non-retryable error: the second one is raised
C23_Witness ==
    /\ Len(trace) = 2
    /\ trace[1].outcome = "ValidationException"
    /\ trace[1].model # llm.cfg.fallback_model_id
    /\ trace[2].outcome = "ValidationException"
    /\ trace[2].model = llm.cfg.fallback_model_id
    /\ llm.pc = "raised"

\* the number of invocations after which the model invoked changed
Switches ==
    Cardinality({i \in 1..(Len(trace) - 1) : trace[i + 1].model # trace[i].model})

InvocationBound ==
    IF llm.cfg.model_id # llm.cfg.fallback_model_id
    THEN llm.cfg.max_retries + 2 ELSE llm.cfg.max_retries + 1

InvocationsBounded ==
    /\ llm.invocations = Len(trace)
    /\ Len(trace) <= InvocationBound
    /\ Switches <= 1

\* C24: generate_response terminates for every sequence of remote outcomes:
\* at most max_retries + 2 invocations in one request when a distinct
\* fallback model exists and at most max_retries + 1 otherwise, the
\* fallback switch happens at most once, and a request in its loop always
\* comes to return or raise.
C24_Terminates ==
    /\ [](llm.pc \in {"loop", "returned", "raised"} => InvocationsBounded)
    /\ (llm.pc = "loop") ~> (llm.pc \in {"returned", "raised"})

\* the longest request: the primary fails, then the fallback is throttled
\* max_retries + 1 times
C24_Witness ==
    /\ llm.pc = "returned"
    /\ llm.cfg.model_id # llm.cfg.fallback_model_id
    /\ Len(trace) = llm.cfg.max_retries + 2
    /\ Switches = 1
    /\ llm.result.origin = "degraded"

\* C34: within one generate_response request the model choice is
\* monotonic: once the fallback model has been invoked, every later
\* invocation of the request, the backoff retries included, targets the
\* fallback model, and the model for the next pass is the fallback.
C34_ModelMonotonic ==
    llm.pc \in {"loop", "returned", "raised"} =>
        \A i \in 1..Len(trace) :
            trace[i].model = llm.cfg.fallback_model_id =>
                /\ \A j \in i..Len(trace) :
                      trace[j].model = llm.cfg.fallback_model_id
                /\ llm.use_model_id = llm.cfg.fallback_model_id

\* the primary fails, the fallback is throttled, sleeps, and is invoked
\* again
C34_Witness ==
    /\ Len(trace) >= 3
    /\ llm.cfg.model_id # llm.cfg.fallback_model_id
    /\ trace[1].model = llm.cfg.model_id
    /\ trace[2].model = llm.cfg.fallback_model_id
    /\ trace[2].slept
    /\ trace[3].model = llm.cfg.fallback_model_id

(***************************************************************************)
(* ChatService                                                             *)
(***************************************************************************)
\* total number of turns kept over all sessions
MaxTurns == 8
\* process_message calls in flight at once
MaxCalls == 3
\* the sentences of one chunk text
MaxSentences == 4
\* CostTracker operations in one run
MaxTrackerCalls == 3

SessionIds == {"s1", "s2"}

\* user messages: the empty one, a whitespace-only one, a question
Messages == {Raw(""), Raw(" "), Raw("q1")}

\* `not user_message`
IsEmpty(m) == m.s = ""

\* `not user_message or not user_message.strip()`
IsBlank_no_strip(m) == m.s = ""

IsBlank(m) == m.s = "" \/ m.s = " "

\* chat_service.py:105
EMPTY_MESSAGE_APOLOGY == Raw("MESSAGE_IS_EMPTY_PLEASE_ENTER_A_QUESTION")
\* chat_service.py:285
FALLBACK_APOLOGY == Raw("SORRY_PROBLEM_WHILE_PROCESSING_REQUEST")
\* chat_service.py:362
FOUND_BUT_AI_PROBLEM == Raw("FOUND_INFORMATION_BUT_AI_GENERATION_PROBLEM")
\* chat_service.py:364
SORRY_AI_PROBLEM == Raw("SORRY_AI_GENERATION_PROBLEM")
\* chat_service.py:502
GENERATION_ERROR_APOLOGY == Raw("SORRY_ERROR_WHILE_GENERATING_RETRY")

UserTurn(m) == [role |-> "user", content |-> m]

AssistantTurn_as_user(t) == [role |-> "user", content |-> t]

AssistantTurn(t) == [role |-> "assistant", content |-> t]

\* the methods class Retriever defines (retriever.py:15-160)
RetrieverMethods == {"__init__", "_initialize_embeddings", "retrieve"}

\* self.retriever.retrieve_with_usage(user_message), lines 123-135: the
\* attribute lookup raises AttributeError when the class has no such
\* method; the exception is caught and relevant_docs stays []
retrieve_with_usage(retrieved) ==
    IF "retrieve_with_usage" \in RetrieverMethods
    THEN [status |-> "done", docs |-> retrieved]
    ELSE [status |-> "AttributeError", docs |-> <<>>]

\* the citation label built from a chunk (lines 376-383)
SourceDisplay(doc) == [pdf_file |-> doc.file, page |-> doc.page]

\* lines 369-417: the sources derived from a second retrieval
doc_sources_of(context, retrieved2) ==
    IF context = <<>> THEN <<>>
    ELSE IF retrieved2 = <<>>
    THEN <<[source |-> [pdf_file |-> "DOCUMENT", page |-> 0],
            contents |-> <<"RELATED_DOCUMENT_CONTENT">>]>>
    ELSE [i \in 1..Len(retrieved2) |->
            [source |-> SourceDisplay(retrieved2[i]),
             contents |-> <<retrieved2[i].content>>]]

EmptyUsage == [is_dict |-> TRUE, model_id |-> ""]

\* lines 458-497: the wrapping of the adapter's text
wrap_response(response, doc_sources) ==
    LET formatted == Dumps([answer |-> response, sources |-> doc_sources])
        parsed == Loads(response)
    IN IF StartsWithBrace(response) /\ EndsWithBrace(response)
       THEN IF parsed.ok
            THEN IF "sources" \notin DOMAIN parsed.obj
                    \/ parsed.obj.sources = <<>>
                 THEN Dumps([k \in DOMAIN parsed.obj \cup {"sources"} |->
                               IF k = "sources" THEN doc_sources
                               ELSE parsed.obj[k]])
                 ELSE Dumps(parsed.obj)
            ELSE formatted
       ELSE formatted

\* lines 498-506: the JSON text returned when the try block raised
error_response_text(doc_sources, msg) ==
    Dumps([answer |-> GENERATION_ERROR_APOLOGY, sources |-> doc_sources,
           error |-> msg])

\* line 367: conversation_history = self.conversations[session_id][-5:]
conversation_window_last_four(history) == SliceLast(history, 4)

conversation_window_before_append(history) ==
    SliceLast(SubSeq(history, 1, Len(history) - 1), 5)

conversation_window(history) == SliceLast(history, 5)

\* ChatService._generate_response (lines 346-506); ar is what
\* BedrockClient.generate_response does: returns a str or raises
generate_response_cs(history, context, retrieved2, has_runtime, ar) ==
    IF ~has_runtime
    THEN [text |-> IF context # <<>> THEN FOUND_BUT_AI_PROBLEM
                   ELSE SORRY_AI_PROBLEM,
          usage |-> EmptyUsage, llm_called |-> FALSE, llm_history |-> <<>>]
    ELSE LET conversation_history == conversation_window(history)
             doc_sources == doc_sources_of(context, retrieved2)
             up == Unpack2(ar.text)
             base == [text |-> Raw(""), usage |-> EmptyUsage,
                      llm_called |-> TRUE,
                      llm_history |-> conversation_history]
         IN IF ar.kind = "raise"
            THEN [base EXCEPT !.text =
                     error_response_text(doc_sources, ar.text.s)]
            ELSE IF ~up.ok
            THEN \* ValueError of the unpacking, caught at line 498
                 [base EXCEPT !.text =
                     error_response_text(doc_sources, "ValueError_unpack")]
            ELSE \* a two-character str: response and token_usage are its
                 \* two characters
                 [base EXCEPT !.text = wrap_response(up.first, doc_sources),
                              !.usage = [is_dict |-> FALSE, model_id |-> ""]]

\* lines 222-263 (and 293-334): the default sources of the text and
\* exception paths
default_sources_of(relevant_docs, context) ==
    [i \in 1..Len(relevant_docs) |->
        [source |-> SourceDisplay(relevant_docs[i]), contents |-> <<>>]]

\* lines 161-208: the JSON text that process_message finally parses
\* (one level of nesting resolved)
resolve_nested(response) ==
    LET outer == Loads(response)
        inner_str == outer.obj.answer
        inner == Loads(inner_str)
    IN IF /\ ContainsAnswerBrace(response)
          /\ outer.ok /\ "answer" \in DOMAIN outer.obj
          /\ StartsWithBrace(inner_str) /\ EndsWithBrace(inner_str)
          /\ inner.ok /\ "answer" \in DOMAIN inner.obj
       THEN inner_str
       ELSE response

AppendTurn(convs, sid, turn) ==
    [convs EXCEPT ![sid] = Append(@, turn)]

EnsureSession_fresh_map(convs, sid) ==
    IF sid \in DOMAIN convs THEN convs ELSE [k \in {sid} |-> <<>>]

\* lines 109-111: the session entry is created when missing
EnsureSession(convs, sid) ==
    IF sid \in DOMAIN convs THEN convs
    ELSE [k \in DOMAIN convs \cup {sid} |->
            IF k = sid THEN <<>> ELSE convs[k]]

NoCall ==
    [retrieval |-> "not_attempted", llm_called |-> FALSE,
     llm_history |-> <<>>, context |-> <<>>, adapter |-> NoResult,
     path |-> "blank"]

\* lines 190-193: the content of the assistant turn of the JSON path
assistant_content_raw(response, json_response) == response

assistant_content(response, json_response) == json_response.answer

\* lines 340-344: the dict returned by the outer except
exception_response_no_error(default_sources, msg) ==
    [answer |-> FALLBACK_APOLOGY, sources |-> default_sources]

exception_response(default_sources, msg) ==
    [answer |-> FALLBACK_APOLOGY, sources |-> default_sources,
     error |-> msg]

\* ChatService.process_message (lines 82-344)
process_message(convs, user_message, session_id, has_runtime, rd, rd2, ar) ==
    IF IsBlank(user_message)
    THEN NoCall @@
         [conversations |-> convs,
          response |-> [response |-> EMPTY_MESSAGE_APOLOGY, sources |-> <<>>]]
    ELSE
    LET c1 == AppendTurn(EnsureSession(convs, session_id), session_id,
                         UserTurn(user_message))
        rw == retrieve_with_usage(rd)
        relevant_docs == rw.docs
        context == Contents(relevant_docs)
        g == generate_response_cs(c1[session_id], context, rd2,
                                  has_runtime, ar)
        response == g.text
        current_response == resolve_nested(response)
        json_response == Loads(current_response)
        parsed_answer == json_response.ok
                         /\ "answer" \in DOMAIN json_response.obj
        calls == [retrieval |-> rw.status, llm_called |-> g.llm_called,
                  llm_history |-> g.llm_history, context |-> context,
                  adapter |-> IF g.llm_called THEN ar ELSE NoResult,
                  path |-> IF ~g.usage.is_dict THEN "exception"
                           ELSE IF StartsWithBrace(response) /\ parsed_answer
                           THEN "json" ELSE "text"]
        text_path ==
            calls @@
            [conversations |-> AppendTurn(c1, session_id,
                                          AssistantTurn(response)),
             response |-> [answer |-> response,
                           sources |-> default_sources_of(relevant_docs,
                                                          context)]]
    IN IF ~g.usage.is_dict
       THEN \* llm_token_usage["model_id"] on a str: TypeError, line 279
            calls @@
            [conversations |-> AppendTurn(c1, session_id,
                                          AssistantTurn(FALLBACK_APOLOGY)),
             response |-> exception_response(
                              default_sources_of(relevant_docs, context),
                              "TypeError_str_index")]
       ELSE IF StartsWithBrace(response)
       THEN IF parsed_answer
            THEN calls @@
                 [conversations |-> AppendTurn(c1, session_id,
                                      AssistantTurn(assistant_content(
                                          response, json_response.obj))),
                  response |-> json_response.obj]
            ELSE text_path
       ELSE text_path

\* ChatService.reset_conversation (lines 508-524)
reset_conversation_drop(convs, session_id) ==
    [k \in DOMAIN convs \ {session_id} |-> convs[k]]

reset_conversation(convs, session_id) ==
    IF session_id \in DOMAIN convs
    THEN [convs EXCEPT ![session_id] = <<>>]
    ELSE convs

(***************************************************************************)
(* lambda_function: FallbackService, get_chat_service, lambda_handler      *)
(***************************************************************************)
\* FallbackService.process_message (lines 80-103)
fallback_process_message(convs, user_message, session_id) ==
    [NoCall EXCEPT !.path = "fallback"] @@
    [conversations |->
        AppendTurn(AppendTurn(EnsureSession(convs, session_id), session_id,
                              UserTurn(user_message)),
                   session_id, AssistantTurn(SORRY_NO_CLIENT)),
     response |-> [response |-> SORRY_NO_CLIENT, sources |-> <<>>,
                   error |-> "service_initialization_failed"]]

\* FallbackService.reset_conversation (lines 105-110): same effect on the
\* map as ChatService's; its True / False result is not used
fallback_reset_conversation(convs, session_id) ==
    IF session_id \in DOMAIN convs
    THEN [convs EXCEPT ![session_id] = <<>>]
    ELSE convs

\* lines 211-267: session_id added, nested answer resolved, legacy shape
\* (`response` key) converted
format_response_no_legacy(response, session_id) ==
    IF "session_id" \in DOMAIN response THEN response
    ELSE [k \in DOMAIN response \cup {"session_id"} |->
            IF k = "session_id" THEN session_id ELSE response[k]]

format_response(response, session_id) ==
    LET r1 == IF "session_id" \in DOMAIN response THEN response
              ELSE [k \in DOMAIN response \cup {"session_id"} |->
                      IF k = "session_id" THEN session_id ELSE response[k]]
        inner == Loads(r1.answer)
        r2 == IF /\ "answer" \in DOMAIN r1
                 /\ StartsWithBrace(r1.answer) /\ EndsWithBrace(r1.answer)
                 /\ inner.ok /\ "answer" \in DOMAIN inner.obj
              THEN LET take == /\ "sources" \in DOMAIN inner.obj
                               /\ ("sources" \notin DOMAIN r1
                                   \/ r1.sources = <<>>)
                   IN [k \in DOMAIN r1
                            \cup (IF take THEN {"sources"} ELSE {}) |->
                         IF k = "answer" THEN inner.obj.answer
                         ELSE IF k = "sources" /\ take
                         THEN inner.obj.sources
                         ELSE r1[k]]
              ELSE r1
    IN IF "response" \in DOMAIN r2 /\ "answer" \notin DOMAIN r2
       THEN \* the new dict has no `error` key, so line 266 copies nothing
            [answer |-> r2.response,
             sources |-> IF "sources" \in DOMAIN r2 THEN r2.sources ELSE <<>>,
             session_id |-> r2.session_id]
       ELSE r2

\* lambda_function.py:185
NO_MESSAGE_ERROR == "MESSAGE_NOT_PROVIDED"
\* lambda_function.py:315
NO_SESSION_ERROR == "SESSION_ID_NOT_PROVIDED"
\* lambda_function.py:323
RESET_DONE == "CONVERSATION_HISTORY_RESET"

\* uuid.uuid4() of line 190
Uuids == {"u1"}

(***************************************************************************)
(* Spec: the chat service behind lambda_handler                            *)
(***************************************************************************)
\* every result BedrockClient.generate_response can give for a request,
\* over all sequences of remote outcomes: the results of the final states
\* reached by generate_step from generate_start
AdapterResults(cfg, history_has_content, is_json_response) ==
    LET RECURSIVE finals(_)
        finals(S) ==
            LET done == {st \in S : st.pc # "loop"}
                more == {generate_step(st, o) : st \in S \ done, o \in Outcomes}
            IN IF S \ done = {} THEN done ELSE done \cup finals(more)
    IN {st.result :
          st \in finals({generate_start(cfg, history_has_content,
                                        is_json_response)})}

LlmConfigs == {bedrock_client_init(m, rt) : m \in LlmModes, rt \in BOOLEAN}

\* the service's client is built with neither SMART_MODE nor FAST_MODE set;
\* boto3 may or may not give it a runtime
ServiceLlmConfigs == {bedrock_client_init("default", rt) : rt \in BOOLEAN}

\* in process_message the history ends with the user turn and the system
\* prompt asks for JSON
AdapterResultTable ==
    [cfg \in LlmConfigs |-> AdapterResults(cfg, TRUE, TRUE)]

\* the remote embedding results used when the service is constructed
ConstructionEmbeddings(docs) ==
    [i \in 1..Len(docs) |-> IF i % 2 = 1 THEN <<1, 0>> ELSE <<0, 1>>]

DefaultEmbConfig == [batch_size |-> 2, has_runtime |-> TRUE]

\* `if _chat_service is None` (line 48)
NeedsInit_always(svc) == TRUE

NeedsInit(svc) == svc = "none"

\* get_chat_service (lines 45-70): when no instance is kept, ChatService(...)
\* is constructed, or, when its construction raises, the FallbackService;
\* otherwise the instance kept is returned
Call_get_chat_service ==
    /\ IF NeedsInit(service)
       THEN \/ /\ service' = "full"
               /\ \E docs \in {<<>>, [i \in 1..MaxDocs |-> Chunk(i)]},
                     cfg \in ServiceLlmConfigs :
                     LET r == retriever_init(docs, <<>>, DefaultEmbConfig,
                                             ConstructionEmbeddings(docs))
                     IN /\ documents' = r.documents
                        /\ embeddings' = r.embeddings
                        /\ retriever' = r.retriever
                        /\ embsvc' = DefaultEmbConfig
                        /\ llm' = IdleLlm(cfg)
               /\ conversations' = <<>>
            \/ /\ service' = "fallback"
               /\ conversations' = <<>>
               /\ UNCHANGED <<documents, embeddings, retriever, embsvc, llm>>
       ELSE UNCHANGED <<service, conversations, documents, embeddings,
                        retriever, embsvc, llm>>
    /\ cop' = [NoChatOp EXCEPT !.op = "get_chat_service"]
    /\ UNCHANGED <<sop, trace, emb, procVars>>

TotalTurns(convs) ==
    LET RECURSIVE sum(_)
        sum(S) == IF S = {} THEN 0
                  ELSE LET k == CHOOSE x \in S : TRUE
                       IN Len(convs[k]) + sum(S \ {k})
    IN sum(DOMAIN convs)

\* what self.retriever.retrieve(user_message) can return in this state
\* (top_k = 3 and retry_init = True by default, retriever.py:89)
Retrievable ==
    {o.result : o \in retrieve(FALSE, 3, TRUE, retriever, documents,
                               embeddings, embsvc)}

\* the outcome of chat_service.process_message(user_message, session_id)
\* for the service in place
ServiceProcess(user_message, session_id) ==
    IF service = "fallback"
    THEN {fallback_process_message(conversations, user_message, session_id)}
    ELSE UNION {
           {process_message(conversations, user_message, session_id,
                            llm.cfg.has_runtime, rd, rd2, ar) :
              \* the retrieval of line 374 is made only `if context:`
              rd2 \in IF retrieve_with_usage(rd).docs = <<>> THEN {<<>>}
                      ELSE Retrievable,
              ar \in IF IsBlank(user_message) \/ ~llm.cfg.has_runtime
                     THEN {NoResult}
                     ELSE AdapterResultTable[llm.cfg]} :
           rd \in Retrievable}

ChatOp(op, user_message, session_id, r) ==
    [op |-> op, message |-> user_message, session_id |-> session_id,
     before |-> conversations, response |-> r.response,
     retrieval |-> r.retrieval, llm_called |-> r.llm_called,
     llm_history |-> r.llm_history, context |-> r.context,
     adapter |-> r.adapter, path |-> r.path, status |-> 0,
     again |-> FALSE]

\* process_message(user_message, session_id) called on the service
Call_process_message ==
    /\ service # "none"
    /\ TotalTurns(conversations) + 2 <= MaxTurns
    /\ \E m \in Messages, sid \in SessionIds :
        \E r \in ServiceProcess(m, sid) :
            /\ conversations' = r.conversations
            /\ cop' = ChatOp("process_message", m, sid, r)
    /\ UNCHANGED <<storeVars, llmVars, service>>

\* reset_conversation(session_id) called on the service
Call_reset_conversation ==
    /\ service # "none"
    /\ \E sid \in SessionIds :
        /\ conversations' =
             IF service = "fallback"
             THEN fallback_reset_conversation(conversations, sid)
             ELSE reset_conversation(conversations, sid)
        /\ cop' = [op |-> "reset_conversation", message |-> Raw(""),
                   session_id |-> sid, before |-> conversations,
                   response |-> <<>>, retrieval |-> "not_attempted",
                   llm_called |-> FALSE, llm_history |-> <<>>,
                   context |-> <<>>, adapter |-> NoResult, path |-> "none", status |-> 0,
                   again |-> cop.op = "reset_conversation"
                             /\ cop.session_id = sid]
    /\ UNCHANGED <<storeVars, llmVars, service>>

\* lambda_handler, POST .../chat with body {message, session_id}
\* (lines 174-304)
Lambda_chat ==
    /\ service # "none"
    /\ TotalTurns(conversations) + 2 <= MaxTurns
    /\ \E m \in Messages, body_sid \in SessionIds \cup {""} :
        IF IsEmpty(m)
        THEN /\ cop' = [op |-> "lambda_chat", message |-> m,
                        session_id |-> body_sid, before |-> conversations,
                        response |-> [error |-> NO_MESSAGE_ERROR],
                        retrieval |-> "not_attempted", llm_called |-> FALSE,
                        llm_history |-> <<>>, context |-> <<>>,
                        adapter |-> NoResult, path |-> "none", status |-> 400,
                        again |-> FALSE]
             /\ UNCHANGED conversations
        ELSE \E sid \in IF body_sid = "" THEN Uuids ELSE {body_sid} :
               \E r \in ServiceProcess(m, sid) :
                 /\ conversations' = r.conversations
                 /\ cop' = [ChatOp("lambda_chat", m, sid, r) EXCEPT
                              !.response = format_response(r.response, sid),
                              !.status = 200]
    /\ UNCHANGED <<storeVars, llmVars, service>>

\* lambda_handler, POST .../chat/reset with body {session_id}
\* (lines 306-343)
Lambda_reset ==
    /\ service # "none"
    /\ \E body_sid \in SessionIds \cup {""} :
        /\ conversations' =
             IF body_sid = "" THEN conversations
             ELSE IF service = "fallback"
             THEN fallback_reset_conversation(conversations, body_sid)
             ELSE reset_conversation(conversations, body_sid)
        /\ cop' = [op |-> "lambda_reset", message |-> Raw(""),
                   session_id |-> body_sid, before |-> conversations,
                   response |-> IF body_sid = ""
                                THEN [error |-> NO_SESSION_ERROR]
                                ELSE [message |-> RESET_DONE,
                                      session_id |-> body_sid],
                   retrieval |-> "not_attempted", llm_called |-> FALSE,
                   llm_history |-> <<>>, context |-> <<>>,
                   adapter |-> NoResult, path |-> "none",
                   status |-> IF body_sid = "" THEN 400 ELSE 200,
                   again |-> cop.op = "lambda_reset"
                             /\ cop.session_id = body_sid]
    /\ UNCHANGED <<storeVars, llmVars, service>>

Init ==
    /\ service = "none"
    /\ conversations = <<>>
    /\ cop = NoChatOp
    /\ documents = <<>>
    /\ embeddings = <<>>
    /\ retriever = NoRetriever
    /\ embsvc = DefaultEmbConfig
    /\ emb = EmbOff
    /\ ingest = NoIngest
    /\ threads = NoThreads
    /\ inflight = NoInflight
    /\ tracker = NoTracker
    /\ sop = NoStoreOp
    /\ llm = LlmOff
    /\ trace = <<>>

Next ==
    \/ Call_get_chat_service
    \/ Call_process_message
    \/ Call_reset_conversation
    \/ Lambda_chat
    \/ Lambda_reset

Spec == Init /\ [][Next]_vars

(***************************************************************************)
(* Properties of DocumentStore.search_similar (under SpecStore)            *)
(***************************************************************************)
SearchCall == sop.op = "search_similar"

\* C16: search_similar returns the empty sequence whenever no embeddings
\* are stored, the query vector is empty, or top_k <= 0 (zero and every
\* negative value).
C16_EmptyResult ==
    (SearchCall /\ (embeddings = <<>> \/ sop.arg[1] = <<>>
                      \/ sop.top_k <= 0)) =>
        sop.result = <<>>

\* the position in the store of the j-th returned chunk
ResultIndex(j) == CHOOSE i \in 1..Len(documents) : documents[i] = sop.result[j]

\* the similarity computed for the chunk at position i
SimilarityAt(i) == cosine_similarity(sop.arg[1], embeddings[i])

\* C17: for top_k >= 1 and a non-empty query vector, search_similar
\* returns min(top_k, number of embedded chunks) distinct chunks of the
\* store, in non-increasing order of similarity to the query; no chunk left
\* out has a strictly higher similarity than a returned one; chunks of
\* equal similarity keep their ingestion order.
C17_TopKOrder ==
    (SearchCall /\ sop.top_k >= 1 /\ sop.arg[1] # <<>>) =>
        LET n == Len(embeddings)
            k == Len(sop.result)
        IN /\ k = (IF sop.top_k < n THEN sop.top_k ELSE n)
           /\ \A j \in 1..k : \E i \in 1..n : documents[i] = sop.result[j]
           /\ \A j1, j2 \in 1..k : j1 # j2 => sop.result[j1] # sop.result[j2]
           /\ \A j1, j2 \in 1..k :
                j1 < j2 =>
                  /\ ~FloatLess(SimilarityAt(ResultIndex(j1)),
                                SimilarityAt(ResultIndex(j2)))
                  /\ FloatEq(SimilarityAt(ResultIndex(j1)),
                             SimilarityAt(ResultIndex(j2)))
                       => ResultIndex(j1) < ResultIndex(j2)
           /\ \A i \in 1..n :
                (\A j \in 1..k : ResultIndex(j) # i) =>
                  \A j \in 1..k :
                     ~FloatLess(SimilarityAt(ResultIndex(j)), SimilarityAt(i))

\* one chunk asked for out of two, and the second ingested chunk is the
\* closer one
C17_Witness ==
    /\ SearchCall /\ sop.top_k = 1 /\ sop.arg[1] # <<>>
    /\ Len(embeddings) >= 2
    /\ sop.result = <<documents[2]>>
    /\ FloatLess(SimilarityAt(1), SimilarityAt(2))

\* C20: embed_documents(texts) returns exactly len(texts) vectors for every
\* input list and every pattern of per-item failures: output index i is
\* the embedding of texts[i] (the zero vector when embedding it failed),
\* whatever happened to the other items.
C20_IndexAligned ==
    sop.op = "embed_documents" =>
        LET texts == sop.arg[1]
            res == sop.arg[2]
        IN /\ ~sop.raised
           /\ Len(sop.result) = Len(texts)
           /\ \A i \in 1..Len(texts) :
                sop.result[i] = (IF embsvc.has_runtime THEN res[i]
                                 ELSE [k \in 1..DefaultDimension |-> 0])

\* C21: once ingestion has finished, no later operation (store_embeddings
\* with any input, search_similar, Retriever initialisation, retrieve)
\* removes, reorders or changes any chunk of the store.
C21_ChunksImmutable == [][documents' = documents]_vars

(***************************************************************************)
(* SpecCosine: _cosine_similarity applied to pairs of vectors              *)
(***************************************************************************)
CosineComponents == {-1, 0, 1, 2, 3}

\* the vectors of every length up to the embedding dimension
CosineVectors ==
    UNION {[1..n -> CosineComponents] : n \in 0..DefaultDimension}

\* self._cosine_similarity(vec1, vec2) on the pair drawn at the start
Call_cosine_similarity ==
    /\ sop.op = "cosine_input"
    /\ sop' = [sop EXCEPT !.op = "cosine_similarity",
                          !.result = cosine_similarity(sop.arg[1],
                                                       sop.arg[2])]
    /\ UNCHANGED <<documents, embeddings, retriever, embsvc, emb, procVars,
                   llmVars, chatVars>>

InitCosine ==
    /\ documents = <<>>
    /\ embeddings = <<>>
    /\ retriever = NoRetriever
    /\ embsvc = DefaultEmbConfig
    /\ emb = EmbOff
    /\ ingest = NoIngest
    /\ threads = NoThreads
    /\ inflight = NoInflight
    /\ tracker = NoTracker
    /\ \E vec1 \in CosineVectors, vec2 \in CosineVectors :
         sop = [NoStoreOp EXCEPT !.op = "cosine_input",
                                 !.arg = <<vec1, vec2>>]
    /\ llm = LlmOff
    /\ trace = <<>>
    /\ service = "none"
    /\ conversations = <<>>
    /\ cop = NoChatOp

NextCosine == Call_cosine_similarity

SpecCosine == InitCosine /\ [][NextCosine]_vars

FloatOne == [m |-> 1, e |-> 0]
FloatMinusOne == [m |-> -1, e |-> 0]

IsZeroVector(v) == \A i \in 1..Len(v) : v[i] = 0

\* C18: for all vector pairs the computed cosine similarity lies in
\* [-1, 1]; a non-zero vector has similarity 1 with itself; the similarity
\* is 0 whenever either vector has zero magnitude; and for vectors of
\* different lengths it is the similarity of both cut to the shorter
\* length.
C18_CosineBounds ==
    sop.op = "cosine_similarity" =>
        LET vec1 == sop.arg[1]
            vec2 == sop.arg[2]
            n == IF Len(vec1) < Len(vec2) THEN Len(vec1) ELSE Len(vec2)
        IN /\ ~FloatLess(FloatOne, sop.result)
           /\ ~FloatLess(sop.result, FloatMinusOne)
           /\ (vec1 = vec2 /\ ~IsZeroVector(vec1)) =>
                 FloatEq(sop.result, FloatOne)
           /\ (IsZeroVector(vec1) \/ IsZeroVector(vec2)) =>
                 FloatEq(sop.result, FloatZero)
           /\ FloatEq(sop.result,
                      cosine_similarity(SubSeq(vec1, 1, n),
                                        SubSeq(vec2, 1, n)))

-----------------------------------------------------------------------------
\* EmbeddingService._get_embedding, one remote invocation per step

Call_get_embedding ==
    /\ emb.pc \in {"off", "returned"}
    /\ \E text_blank \in BOOLEAN :
         emb' = get_embedding_start(embsvc, text_blank)
    /\ UNCHANGED <<documents, embeddings, retriever, embsvc, sop, procVars,
                   llmVars, chatVars>>

EmbRemote(out) ==
    /\ emb.pc = "loop"
    /\ emb' = get_embedding_step(emb, out)
    /\ UNCHANGED <<documents, embeddings, retriever, embsvc, sop, procVars,
                   llmVars, chatVars>>

Embed_success ==
    \E out \in EmbOutcomes : out.kind = "success" /\ EmbRemote(out)

Embed_client_error ==
    \E out \in EmbOutcomes : out.kind = "client_error" /\ EmbRemote(out)

Embed_connection_error == EmbRemote([kind |-> "connection_error"])

Embed_exception == EmbRemote([kind |-> "exception"])

InitEmbed ==
    /\ documents = <<>>
    /\ embeddings = <<>>
    /\ retriever = NoRetriever
    /\ embsvc \in {[batch_size |-> 2, has_runtime |-> b] : b \in BOOLEAN}
    /\ emb = EmbOff
    /\ ingest = NoIngest
    /\ threads = NoThreads
    /\ inflight = NoInflight
    /\ tracker = NoTracker
    /\ sop = NoStoreOp
    /\ llm = LlmOff
    /\ trace = <<>>
    /\ service = "none"
    /\ conversations = <<>>
    /\ cop = NoChatOp

NextEmbed ==
    \/ Call_get_embedding
    \/ Embed_success
    \/ Embed_client_error
    \/ Embed_connection_error
    \/ Embed_exception

SpecEmbed == InitEmbed /\ [][NextEmbed]_vars

EmbSucceeded(out) == out.kind = "success" /\ out.embedding # <<>>

EmbNonRetryable(out) ==
    /\ out.kind = "client_error"
    /\ out.code \notin {"ThrottlingException", "ServiceUnavailableException",
                        "ModelNotReadyException"}

\* C19: _get_embedding never raises and always returns a vector: it makes
\* at most max_retries + 1 remote invocations; a non-retryable ClientError
\* is the last invocation, after which the call has returned; and when no
\* invocation succeeded the result is the zero vector of the default
\* dimension.
C19_EmbeddingNeverRaises ==
    emb.pc # "off" =>
        /\ emb.pc \in {"loop", "returned"}
        /\ emb.invocations = Len(emb.log)
        /\ emb.invocations <= 3 + 1
        /\ \A i \in 1..Len(emb.log) :
             EmbNonRetryable(emb.log[i]) =>
                 i = Len(emb.log) /\ emb.pc = "returned"
        /\ emb.pc = "returned" =>
             /\ Len(emb.result) > 0
             /\ (\A i \in 1..Len(emb.log) : ~EmbSucceeded(emb.log[i])) =>
                    emb.result = [k \in 1..DefaultDimension |-> 0]

\* every retry used up by retryable failures: four invocations, zero vector
C19_Witness ==
    /\ emb.pc = "returned"
    /\ emb.invocations = 4
    /\ \A i \in 1..4 : ~EmbSucceeded(emb.log[i])
    /\ emb.result = [k \in 1..DefaultDimension |-> 0]

-----------------------------------------------------------------------------
\* DocumentStore used from three threads: thread 1 calls store_embeddings,
\* thread 2 search_similar, thread 3 get_documents.  threads.lock is the
\* owner of self._lock; threads.committed collects the pairs
\* (documents, embeddings) as they are between store_embeddings calls.

StoreThread == "store_embeddings"
SearchThread == "search_similar"
GetThread == "get_documents"

Threads == {StoreThread, SearchThread, GetThread}

\* the owner of a lock nobody holds
NoOwner == "none"

ThreadIdle ==
    [pc |-> "idle", arg |-> <<>>, top_k |-> 0, min_len |-> 0,
     top_indices |-> <<>>, seen_embs |-> <<>>, seen_docs |-> <<>>,
     index_error |-> FALSE, result |-> <<>>]

\* the vectors the threads use
ThreadVectors == {<<1, 0>>, <<0, 1>>}

\* the store after ingestion and a first embedding of every chunk
ThreadDocuments == [i \in 1..MaxDocs |-> Chunk(i)]

ThreadEmbeddings == [i \in 1..MaxDocs |-> IF i % 2 = 1 THEN <<1, 0>> ELSE <<0, 1>>]

\* threading.RLock (line 38): free, or already held by the same thread
LockFree_unlocked(t) == TRUE

LockFree(t) == threads.lock \in {NoOwner, t}

\* `with self._lock:` entered (lines 192, 202, 224)
Thread_acquire(t) ==
    /\ threads.t[t].pc = "acquire"
    /\ LockFree(t)
    /\ threads' = [threads EXCEPT !.lock = t, !.t[t].pc = "locked"]
    /\ UNCHANGED <<documents, embeddings>>

\* the with block left: the lock is released and the call returns
Thread_release(t) ==
    /\ threads.t[t].pc = "release"
    /\ threads' = [threads EXCEPT
                     !.lock = IF @ = t THEN NoOwner ELSE @,
                     !.t[t].pc = "done",
                     !.committed = IF t = StoreThread
                                   THEN @ \cup {[documents |-> documents,
                                                 embeddings |-> embeddings]}
                                   ELSE @]
    /\ UNCHANGED <<documents, embeddings>>

\* store_embeddings(embeddings) called
Thread_store_call ==
    /\ threads.t[StoreThread].pc = "idle"
    /\ \E n \in 0..MaxDocs : \E vs \in [1..n -> ThreadVectors] :
         threads' = [threads EXCEPT !.t[StoreThread].pc = "acquire",
                                    !.t[StoreThread].arg = <<>> \o vs]
    /\ UNCHANGED <<documents, embeddings>>

\* the length test, min_len and the cut of the argument (lines 203-207)
Thread_store_test ==
    LET me == threads.t[StoreThread]
        min_len == Min(Len(me.arg), Len(documents))
    IN /\ me.pc = "locked"
       /\ threads' =
            IF Len(me.arg) # Len(documents)
            THEN [threads EXCEPT !.t[StoreThread].pc = "cut",
                                 !.t[StoreThread].min_len = min_len,
                                 !.t[StoreThread].arg = SliceTo(@, min_len)]
            ELSE [threads EXCEPT !.t[StoreThread].pc = "assign"]
       /\ UNCHANGED <<documents, embeddings>>

\* self.documents = self.documents[:min_len] (line 208)
Thread_store_cut ==
    /\ threads.t[StoreThread].pc = "cut"
    /\ documents' = SliceTo(documents, threads.t[StoreThread].min_len)
    /\ threads' = [threads EXCEPT !.t[StoreThread].pc = "assign"]
    /\ UNCHANGED embeddings

\* self.embeddings = embeddings (line 210)
Thread_store_assign ==
    /\ threads.t[StoreThread].pc = "assign"
    /\ embeddings' = threads.t[StoreThread].arg
    /\ threads' = [threads EXCEPT !.t[StoreThread].pc = "release"]
    /\ UNCHANGED documents

\* search_similar(query_embedding, top_k) called
Thread_search_call ==
    /\ threads.t[SearchThread].pc = "idle"
    /\ \E q \in ThreadVectors \cup {<<>>}, k \in 1..MaxDocs :
         threads' = [threads EXCEPT !.t[SearchThread].pc = "acquire",
                                    !.t[SearchThread].arg = q,
                                    !.t[SearchThread].top_k = k]
    /\ UNCHANGED <<documents, embeddings>>

\* the two emptiness tests (lines 225-232)
Thread_search_check ==
    LET me == threads.t[SearchThread]
    IN /\ me.pc = "locked"
       /\ threads' =
            IF embeddings = <<>> \/ documents = <<>> \/ me.arg = <<>>
            THEN [threads EXCEPT !.t[SearchThread].pc = "release",
                                 !.t[SearchThread].seen_embs = embeddings,
                                 !.t[SearchThread].seen_docs = documents]
            ELSE [threads EXCEPT !.t[SearchThread].pc = "score"]
       /\ UNCHANGED <<documents, embeddings>>

\* the similarity loop over self.embeddings and the sort (lines 236-247)
Thread_search_score ==
    LET me == threads.t[SearchThread]
    IN /\ me.pc = "score"
       /\ threads' = [threads EXCEPT
             !.t[SearchThread].pc = "pick",
             !.t[SearchThread].seen_embs = embeddings,
             !.t[SearchThread].top_indices =
                 top_indices_of(similarities_of(me.arg, embeddings), me.top_k)]
       /\ UNCHANGED <<documents, embeddings>>

\* [self.documents[i] for i in top_indices] (line 249); an IndexError is
\* caught at line 251 and the call returns []
Thread_search_pick ==
    LET me == threads.t[SearchThread]
    IN /\ me.pc = "pick"
       /\ threads' = [threads EXCEPT
             !.t[SearchThread].pc = "release",
             !.t[SearchThread].seen_docs = documents,
             !.t[SearchThread].index_error =
                 \E j \in 1..Len(me.top_indices) :
                     me.top_indices[j] > Len(documents),
             !.t[SearchThread].result = documents_at(documents, me.top_indices)]
       /\ UNCHANGED <<documents, embeddings>>

\* get_documents() called
Thread_get_call ==
    /\ threads.t[GetThread].pc = "idle"
    /\ threads' = [threads EXCEPT !.t[GetThread].pc = "acquire"]
    /\ UNCHANGED <<documents, embeddings>>

\* return self.documents.copy() (line 193)
Thread_get_copy ==
    /\ threads.t[GetThread].pc = "locked"
    /\ threads' = [threads EXCEPT !.t[GetThread].pc = "release",
                                  !.t[GetThread].seen_docs = documents,
                                  !.t[GetThread].result = documents]
    /\ UNCHANGED <<documents, embeddings>>

InitThreads ==
    /\ documents = ThreadDocuments
    /\ embeddings = ThreadEmbeddings
    /\ retriever = NoRetriever
    /\ embsvc = DefaultEmbConfig
    /\ emb = EmbOff
    /\ ingest = NoIngest
    /\ threads = [lock |-> NoOwner,
                  committed |-> {[documents |-> ThreadDocuments,
                                  embeddings |-> ThreadEmbeddings]},
                  t |-> [i \in Threads |-> ThreadIdle]]
    /\ inflight = NoInflight
    /\ tracker = NoTracker
    /\ sop = NoStoreOp
    /\ llm = LlmOff
    /\ trace = <<>>
    /\ service = "none"
    /\ conversations = <<>>
    /\ cop = NoChatOp

\* what no step of a thread changes
ThreadFrame ==
    UNCHANGED <<retriever, embsvc, emb, sop, ingest, inflight, tracker, llmVars,
                chatVars>>

NextThreads ==
    \/ (\E t \in Threads : Thread_acquire(t)) /\ ThreadFrame
    \/ (\E t \in Threads : Thread_release(t)) /\ ThreadFrame
    \/ Thread_store_call /\ ThreadFrame
    \/ Thread_store_test /\ ThreadFrame
    \/ Thread_store_cut /\ ThreadFrame
    \/ Thread_store_assign /\ ThreadFrame
    \/ Thread_search_call /\ ThreadFrame
    \/ Thread_search_check /\ ThreadFrame
    \/ Thread_search_score /\ ThreadFrame
    \/ Thread_search_pick /\ ThreadFrame
    \/ Thread_get_call /\ ThreadFrame
    \/ Thread_get_copy /\ ThreadFrame

SpecThreads == InitThreads /\ [][NextThreads]_vars

\* a reader is reading the lists, a store_embeddings call is changing them
Reading(t) == threads.t[t].pc \in {"locked", "score", "pick"}

Storing == threads.t[StoreThread].pc \in {"locked", "cut", "assign"}

\* the pair the call read is the pair as it was between two stores
SawCommittedPair(t) ==
    \E p \in threads.committed :
        /\ threads.t[t].seen_docs = p.documents
        /\ t = SearchThread => threads.t[t].seen_embs = p.embeddings

\* C29: with store_embeddings, search_similar and get_documents running in
\* different threads, no search_similar or get_documents reads while a
\* store_embeddings is between its two assignments; each one sees the
\* chunk list and the embedding list entirely before or entirely after the
\* store, and search_similar never indexes past the end of the chunk list.
C29_NoHalfUpdatedPair ==
    /\ \A t \in {SearchThread, GetThread} : ~(Reading(t) /\ Storing)
    /\ \A t \in {SearchThread, GetThread} :
         threads.t[t].pc \in {"release", "done"} => SawCommittedPair(t)
    /\ ~threads.t[SearchThread].index_error
    /\ threads.t[SearchThread].pc \in {"release", "done"} =>
         \A j \in 1..Len(threads.t[SearchThread].result) :
            threads.t[SearchThread].result[j] =
               threads.t[SearchThread].seen_docs[threads.t[SearchThread].top_indices[j]]

\* a store_embeddings has cut the chunk list and not yet assigned the
\* vectors, while both readers wait for the lock
C29_Witness ==
    /\ threads.t[StoreThread].pc = "assign"
    /\ Len(documents) < Len(embeddings)
    /\ threads.t[SearchThread].pc = "acquire"
    /\ threads.t[SearchThread].top_k = MaxDocs
    /\ threads.t[GetThread].pc = "acquire"

-----------------------------------------------------------------------------
\* DocumentStore.__init__: the load of the bucket drawn at the start

\* self._load_documents() (line 45)
Call_load_documents ==
    /\ ingest.pc = "created"
    /\ documents' = load_documents(ingest.bucket)
    /\ ingest' = [ingest EXCEPT !.pc = "loaded"]
    /\ UNCHANGED <<embeddings, retriever, embsvc, emb, sop, threads, inflight,
                   tracker, llmVars, chatVars>>

InitIngest ==
    /\ documents = <<>>
    /\ embeddings = <<>>
    /\ retriever = NoRetriever
    /\ embsvc = DefaultEmbConfig
    /\ emb = EmbOff
    /\ \E head \in {"ok", "client_error", "error"} :
         \E list \in {"ok", "no_contents", "error"} :
           \E n \in 0..MaxObjects :
             \E shapes \in [1..n -> ObjectShapes] :
               /\ (head # "ok" \/ list # "ok") => (n = 0 /\ "ok" \in {head, list})
               /\ ingest = [pc |-> "created",
                            bucket |-> Bucket(head, list, <<>> \o shapes)]
    /\ threads = NoThreads
    /\ inflight = NoInflight
    /\ tracker = NoTracker
    /\ sop = NoStoreOp
    /\ llm = LlmOff
    /\ trace = <<>>
    /\ service = "none"
    /\ conversations = <<>>
    /\ cop = NoChatOp

NextIngest == Call_load_documents

SpecIngest == InitIngest /\ [][NextIngest]_vars

\* the pages (object position, page number) that can give a chunk: of a
\* listed PDF that downloads and parses, with a non-blank extracted text
GoodPages ==
    IF ingest.bucket.head # "ok" \/ ingest.bucket.list # "ok" THEN {}
    ELSE {kp \in (1..Len(ingest.bucket.contents)) \X (1..(MaxPages + 1)) :
            LET obj == ingest.bucket.contents[kp[1]]
            IN /\ obj.key.ext \in {"pdf", "PDF"}
               /\ obj.download = "ok" /\ obj.parse_ok
               /\ kp[2] <= Len(obj.pages)
               /\ "text" \in DOMAIN obj.pages[kp[2]]
               /\ obj.pages[kp[2]].text \notin {"", " "}}

ListedBefore(a, b) == a[1] < b[1] \/ (a[1] = b[1] /\ a[2] < b[2])

\* C28: a failure on one object (download, parse, or extraction of one
\* page) does not abort the load: every non-blank page of every other PDF
\* object, and every other non-blank page of the same object, is appended
\* as a chunk, in listing order; every chunk has non-blank content and a
\* 1-based page number; an unreachable or missing bucket yields zero chunks
\* without an exception.
C28_IngestionSkipsFailures ==
    ingest.pc = "loaded" =>
        /\ Len(documents) = Cardinality(GoodPages)
        /\ \A kp \in GoodPages :
             LET i == Cardinality({g \in GoodPages : ListedBefore(g, kp)}) + 1
                 obj == ingest.bucket.contents[kp[1]]
             IN /\ documents[i].file = obj.key
                /\ documents[i].page = kp[2]
                /\ documents[i].content = obj.pages[kp[2]].text
        /\ \A i \in 1..Len(documents) :
             /\ documents[i].content \notin {"", " "}
             /\ documents[i].page >= 1
        /\ ingest.bucket.head # "ok" => documents = <<>>

\* a failed download, then a PDF whose first page fails and whose second
\* page is kept
C28_Witness ==
    /\ ingest.pc = "loaded"
    /\ Len(ingest.bucket.contents) = 2
    /\ ingest.bucket.contents[1].download = "client_error"
    /\ Len(ingest.bucket.contents[2].pages) = 2
    /\ "raises" \in DOMAIN ingest.bucket.contents[2].pages[1]
    /\ Len(documents) = 1
    /\ documents[1].page = 2

(***************************************************************************)
(* Properties of the chat service                                          *)
(***************************************************************************)
ChatCall == cop.op \in {"process_message", "lambda_chat"} /\ cop.status # 400

\* the history of the addressed session before the call ([] when the
\* session was unknown)
HistoryBefore ==
    IF cop.session_id \in DOMAIN cop.before THEN cop.before[cop.session_id]
    ELSE <<>>

\* the call's message is empty or consists of whitespace only
BlankMessage == cop.message \in {Raw(""), Raw(" ")}

RoleAt(i) == IF i % 2 = 1 THEN "user" ELSE "assistant"

\* C2: after any sequence of sequential calls every session's history has
\* even length and alternates user, assistant, user, assistant, ...; and a
\* process_message call of ChatService with a non-blank message extends the
\* addressed session's history by exactly the user turn followed by one
\* assistant turn, on the paths that end in an error response too.
C2_Alternation ==
    /\ \A sid \in DOMAIN conversations :
         /\ Len(conversations[sid]) % 2 = 0
         /\ \A i \in 1..Len(conversations[sid]) :
              conversations[sid][i].role = RoleAt(i)
    /\ (ChatCall /\ service = "full" /\ ~BlankMessage) =>
         LET h == conversations[cop.session_id]
             n == Len(HistoryBefore)
         IN /\ Len(h) = n + 2
            /\ SubSeq(h, 1, n) = HistoryBefore
            /\ h[n + 1] = [role |-> "user", content |-> cop.message]
            /\ h[n + 2].role = "assistant"
            /\ \A sid \in DOMAIN cop.before \ {cop.session_id} :
                 conversations[sid] = cop.before[sid]

\* a non-blank call that ended in an error response, on a session that
\* already held a pair
C2_Witness ==
    /\ ChatCall /\ service = "full" /\ ~BlankMessage
    /\ "error" \in DOMAIN cop.response
    /\ Len(HistoryBefore) >= 2
    /\ Len(conversations[cop.session_id]) = Len(HistoryBefore) + 2

\* the answer a response text T stands for: the answer field of T when T
\* is a JSON object carrying one, T itself otherwise
AnswerOf(T) ==
    IF Loads(T).ok /\ "answer" \in DOMAIN Loads(T).obj
    THEN Loads(T).obj.answer
    ELSE T

\* C3: when the adapter's remote call succeeds with model text T, the answer
\* that process_message returns is derived from T (T itself for a plain
\* text, the answer field of T for a JSON object) and is not a canned error
\* apology.
C3_AnswerFromModelText ==
    (ChatCall /\ service = "full" /\ cop.llm_called
       /\ cop.adapter.origin = "model") =>
        /\ "answer" \in DOMAIN cop.response
        /\ cop.response.answer = AnswerOf(cop.adapter.model_text)
        /\ cop.response.answer \notin {GENERATION_ERROR_APOLOGY,
                                       FALLBACK_APOLOGY}

\* C4: for a non-blank message, when the retriever is able to return at
\* least one chunk, retrieval is performed and the context given to
\* generation is the non-empty join of the retrieved chunks' contents.
C4_ContextFromRetrieval ==
    (ChatCall /\ service = "full" /\ ~BlankMessage
       /\ \E rd \in Retrievable : rd # <<>>) =>
        /\ cop.retrieval = "done"
        /\ cop.context # <<>>
        /\ \E rd \in Retrievable : cop.context = Contents(rd)

\* C7: a process_message call of ChatService with an empty or
\* whitespace-only message leaves the conversations map exactly as it was
\* (no session created, no turn appended) and calls neither the retriever
\* nor the LLM adapter.
C7_BlankNoEffect ==
    (ChatCall /\ service = "full" /\ BlankMessage) =>
        /\ conversations = cop.before
        /\ DOMAIN conversations = DOMAIN cop.before
        /\ cop.retrieval = "not_attempted"
        /\ ~cop.llm_called
        /\ cop.adapter = NoResult

\* a whitespace-only message for a session the map does not hold, while
\* another session holds turns
C7_Witness ==
    /\ ChatCall /\ service = "full" /\ cop.message = Raw(" ")
    /\ cop.session_id \notin DOMAIN cop.before
    /\ \E sid \in DOMAIN cop.before : cop.before[sid] # <<>>
    /\ llm.cfg.has_runtime

\* C8: for a blank message process_message returns the fixed apology in the
\* field `answer`, with `sources` the empty list.
C8_BlankApologyInAnswer ==
    (cop.op \in {"process_message", "lambda_chat"} /\ service = "full"
       /\ BlankMessage) =>
        /\ "answer" \in DOMAIN cop.response
        /\ cop.response.answer = EMPTY_MESSAGE_APOLOGY
        /\ "sources" \in DOMAIN cop.response
        /\ cop.response.sources = <<>>

ResetCall ==
    /\ cop.op \in {"reset_conversation", "lambda_reset"}
    /\ cop.status # 400

\* C9: reset_conversation on a known session leaves the session in the map
\* with the empty history and touches no other session, whether or not the
\* history was empty already, so a second call in a row gives the same; on
\* an unknown session it leaves the map unchanged. This holds for
\* ChatService and for FallbackService.
C9_ResetIdempotent ==
    ResetCall =>
        /\ DOMAIN conversations = DOMAIN cop.before
        /\ \A sid \in DOMAIN cop.before :
             conversations[sid] =
                IF sid = cop.session_id THEN <<>> ELSE cop.before[sid]
        /\ cop.session_id \notin DOMAIN cop.before =>
             conversations = cop.before
        /\ cop.again /\ cop.session_id \in DOMAIN cop.before =>
             /\ cop.before[cop.session_id] = <<>>
             /\ conversations = cop.before

\* the second of two resets in a row of a known session, while another
\* session keeps its turns
C9_Witness ==
    /\ ResetCall /\ cop.again
    /\ cop.session_id \in DOMAIN conversations
    /\ conversations[cop.session_id] = <<>>
    /\ \E sid \in DOMAIN conversations : conversations[sid] # <<>>

\* every session other than the addressed one is in the map as before
OtherSessionsKept ==
    /\ DOMAIN cop.before \subseteq DOMAIN conversations
    /\ DOMAIN conversations \subseteq DOMAIN cop.before \cup {cop.session_id}
    /\ \A sid \in DOMAIN cop.before \ {cop.session_id} :
         conversations[sid] = cop.before[sid]

\* C25: reset_conversation(sid) changes only the history of sid: it removes
\* no session id from the map, creates no entry for an unknown sid and
\* leaves every other session's history unchanged; and process_message on
\* session A never changes the history of a session B # A.
C25_SessionFrame ==
    /\ ResetCall =>
         /\ OtherSessionsKept
         /\ DOMAIN conversations = DOMAIN cop.before
    /\ ChatCall => OtherSessionsKept

\* a first message on a new session while another session holds turns
C25_Witness ==
    /\ ChatCall /\ ~BlankMessage
    /\ cop.session_id \notin DOMAIN cop.before
    /\ cop.session_id \in DOMAIN conversations
    /\ \E sid \in DOMAIN cop.before :
         cop.before[sid] # <<>> /\ conversations[sid] = cop.before[sid]

\* C31: the service variant is selected once and never swapped: once
\* get_chat_service has returned an instance, no step replaces it, and a
\* later get_chat_service call returns the instance as it is (its
\* conversations, store, retriever and adapter untouched): construction is
\* not attempted again.
C31_ServiceSelectedOnce ==
    [][service # "none" =>
         /\ service' = service
         /\ cop'.op = "get_chat_service" =>
               UNCHANGED <<conversations, documents, embeddings, retriever,
                           embsvc, llm>>]_vars

\* get_chat_service called again on a fallback service that holds turns
C31_Witness ==
    /\ service = "fallback"
    /\ cop.op = "get_chat_service"
    /\ conversations # <<>>
    /\ \E sid \in DOMAIN conversations : conversations[sid] # <<>>

\* C10: the history handed to the LLM adapter is the last min(5, n) turns of
\* the session's history taken after the current user turn was appended (n
\* its length then); its last element is the current user message, and for
\* the second message of a session it holds the first user / assistant pair.
C10_WindowAfterAppend ==
    (ChatCall /\ service = "full" /\ cop.llm_called) =>
        LET h == HistoryBefore \o <<[role |-> "user",
                                     content |-> cop.message]>>
            n == Len(h)
            k == IF n < 5 THEN n ELSE 5
            w == cop.llm_history
        IN /\ Len(w) = k
           /\ \A i \in 1..k : w[i] = h[n - k + i]
           /\ w[k].role = "user" /\ w[k].content = cop.message
           /\ n = 3 => /\ w[1] = HistoryBefore[1] /\ w[1].role = "user"
                       /\ w[2] = HistoryBefore[2]
                       /\ w[2].role = "assistant"

\* a call on a session that already held six turns: the window drops the
\* two oldest of the seven
C10_Witness ==
    /\ ChatCall /\ service = "full" /\ cop.llm_called
    /\ Len(HistoryBefore) = 6
    /\ Len(cop.llm_history) = 5
    /\ cop.llm_history[1] = HistoryBefore[3]

\* C35: in sequential use the message list handed to the LLM adapter starts
\* with a user turn, strictly alternates user / assistant and ends with the
\* current user message, for every number of earlier turns of the session
\* and after any reset_conversation.
C35_LlmMessagesAlternate ==
    (ChatCall /\ service = "full" /\ cop.llm_called) =>
        LET w == cop.llm_history
        IN /\ Len(w) >= 1
           /\ w[1].role = "user"
           /\ \A i \in 1..(Len(w) - 1) :
                 /\ w[i].role \in {"user", "assistant"}
                 /\ w[i + 1].role \in {"user", "assistant"}
                 /\ w[i].role # w[i + 1].role
           /\ w[Len(w)] = [role |-> "user", content |-> cop.message]

\* the fourth message of a session, with another session known and emptied
\* by a reset: the window is five of the seven turns
C35_Witness ==
    /\ ChatCall /\ service = "full" /\ cop.llm_called
    /\ Len(HistoryBefore) = 6
    /\ Len(cop.llm_history) = 5
    /\ cop.llm_history[1].role = "user"
    /\ \E sid \in DOMAIN cop.before :
          sid # cop.session_id /\ cop.before[sid] = <<>>

\* the last turn of the addressed session after the call
LastTurn ==
    conversations[cop.session_id][Len(conversations[cop.session_id])]

\* C11: on every completion of process_message other than the exception
\* path, the assistant turn appended to the history is the normalized answer
\* text that the call returns, never the JSON-serialized response text,
\* whatever the model answered (a JSON object without `answer` and
\* unparsable text included).
C11_AssistantTurnIsAnswer ==
    (ChatCall /\ service = "full" /\ ~BlankMessage
       /\ cop.path \in {"json", "text"}) =>
        /\ Len(conversations[cop.session_id]) = Len(HistoryBefore) + 2
        /\ LastTurn.role = "assistant"
        /\ "answer" \in DOMAIN cop.response
        /\ LastTurn.content = cop.response.answer
        /\ LastTurn.content.form = "raw"

\* the model answered a JSON object that has no `answer` key
C11_Witness ==
    /\ ChatCall /\ service = "full" /\ cop.path \in {"json", "text"}
    /\ cop.adapter.origin = "model"
    /\ cop.adapter.model_text = Dumps([note |-> Raw("N")])
    /\ LastTurn.role = "assistant"

\* C12: when an unexpected exception occurs in process_message after the
\* user turn was appended, the fixed fallback apology is appended as the
\* assistant turn and the call returns answer = apology, sources = [] and
\* an error message, without raising to the caller.
C12_ExceptionPath ==
    (ChatCall /\ service = "full" /\ cop.path = "exception") =>
        LET h == conversations[cop.session_id]
            n == Len(HistoryBefore)
        IN /\ Len(h) = n + 2
           /\ h[n + 1] = [role |-> "user", content |-> cop.message]
           /\ h[n + 2] = [role |-> "assistant", content |-> FALLBACK_APOLOGY]
           /\ {"answer", "sources", "error"} \subseteq DOMAIN cop.response
           /\ cop.response.answer = FALLBACK_APOLOGY
           /\ cop.response.sources = <<>>
           /\ cop.status \in {0, 200}

\* the TypeError of line 154 on a service whose store holds chunks, in a
\* session that already held a pair
C12_Witness ==
    /\ ChatCall /\ service = "full" /\ cop.path = "exception"
    /\ Len(HistoryBefore) >= 2
    /\ documents # <<>>
    /\ LastTurn.content = FALLBACK_APOLOGY

\* the response of the call in the shape lambda_handler puts in the body
ExternalResponse ==
    IF cop.op = "lambda_chat" THEN cop.response
    ELSE format_response(cop.response, cop.session_id)

ModelAnswered ==
    /\ ChatCall /\ service = "full" /\ cop.llm_called
    /\ cop.adapter.origin = "model"
    /\ cop.adapter.model_text.form = "json"
    /\ "answer" \in DOMAIN cop.adapter.model_text.obj

\* C14: when the model output is a JSON object with answer "X" and a missing
\* or empty `sources`, the normalized output has answer "X" and `sources`
\* equal to the retrieval-derived list: non-empty if retrieval produced a
\* chunk, [] otherwise.
C14_NormalizerRoundTrip ==
    (/\ ModelAnswered
     /\ cop.adapter.model_text.obj.answer = Raw("X")
     /\ ("sources" \in DOMAIN cop.adapter.model_text.obj =>
            cop.adapter.model_text.obj.sources = <<>>)) =>
        /\ {"answer", "sources"} \subseteq DOMAIN cop.response
        /\ cop.response.answer = Raw("X")
        /\ (cop.response.sources = <<>>) <=> (cop.context = <<>>)

\* C15: when the model output is a JSON object whose `answer` is a string
\* that encodes a JSON object with an `answer` key, the final response uses
\* the inner object's answer, not the inner JSON text.
C15_DoubleEncodingRepair ==
    (/\ ModelAnswered
     /\ Loads(cop.adapter.model_text.obj.answer).ok
     /\ "answer" \in DOMAIN Loads(cop.adapter.model_text.obj.answer).obj) =>
        /\ "answer" \in DOMAIN cop.response
        /\ cop.response.answer =
             Loads(cop.adapter.model_text.obj.answer).obj.answer

\* C27: a model text that does not start with `{`, or that starts with `{`
\* but does not parse as JSON, is returned with `answer` equal to the raw
\* model text and `sources` equal to the retrieval-derived sources; no
\* parse failure raises out of process_message.
C27_RawTextFallback ==
    (/\ ChatCall /\ service = "full" /\ cop.llm_called
     /\ cop.adapter.origin = "model"
     /\ cop.adapter.model_text.form = "raw") =>
        /\ cop.path # "exception"
        /\ {"answer", "sources"} \subseteq DOMAIN cop.response
        /\ cop.response.answer = cop.adapter.model_text
        /\ (cop.response.sources = <<>>) <=> (cop.context = <<>>)

\* C33: when the service returns the legacy shape (`response` instead of
\* `answer`) together with an `error` field, the body the handler builds
\* from it, {answer, sources, session_id}, still includes that `error`.
C33_LegacyErrorKept ==
    (/\ cop.op = "lambda_chat" /\ cop.status = 200
     /\ service = "fallback") =>
        /\ "error" \in DOMAIN cop.response
        /\ cop.response.error = "service_initialization_failed"

(***************************************************************************)
(* Overlapping process_message calls of one ChatService for one session:   *)
(* inflight[c] is the position of call c inside process_message.           *)
(***************************************************************************)
RaceSession == "s1"

\* the non-blank message of call c
RaceQuestions == <<"q1", "q2", "q3", "q4">>

RaceMessage(c) == Raw(RaceQuestions[c])

\* the text of the assistant turn, whichever branch appends it
RaceAnswer == Raw("answer")

\* self.conversations[session_id] = [] (line 111)
CreateSession_keep_existing(convs, sid) ==
    IF sid \in DOMAIN convs THEN convs
    ELSE [k \in DOMAIN convs \cup {sid} |-> IF k = sid THEN <<>> ELSE convs[k]]

CreateSession(convs, sid) ==
    [k \in DOMAIN convs \cup {sid} |-> IF k = sid THEN <<>> ELSE convs[k]]

\* process_message(user_message, session_id) entered with a non-blank
\* message (lines 82-107)
Race_call(c) ==
    /\ inflight[c].pc = "idle"
    /\ inflight' = [inflight EXCEPT ![c].pc = "check"]
    /\ UNCHANGED conversations

\* `if session_id not in self.conversations` (line 110)
Race_check(c) ==
    /\ inflight[c].pc = "check"
    /\ inflight' = [inflight EXCEPT ![c].pc =
                      IF RaceSession \in DOMAIN conversations
                      THEN "append_user" ELSE "create"]
    /\ UNCHANGED conversations

\* the assignment of line 111, taken because the test of line 110 found
\* no entry
Race_create(c) ==
    /\ inflight[c].pc = "create"
    /\ conversations' = CreateSession(conversations, RaceSession)
    /\ inflight' = [inflight EXCEPT ![c].pc = "append_user"]

\* the user turn appended (lines 114-117)
Race_append_user(c) ==
    /\ inflight[c].pc = "append_user"
    /\ conversations' = AppendTurn(conversations, RaceSession,
                                   UserTurn(RaceMessage(c)))
    /\ inflight' = [inflight EXCEPT ![c].pc = "generate"]

\* retrieval and generation done, the assistant turn appended (lines 190,
\* 222, 285)
Race_append_assistant(c) ==
    /\ inflight[c].pc = "generate"
    /\ conversations' = AppendTurn(conversations, RaceSession,
                                   AssistantTurn(RaceAnswer))
    /\ inflight' = [inflight EXCEPT ![c].pc = "done"]

\* the session is new, or known with an empty history
InitRace ==
    /\ service = "full"
    /\ conversations \in {<<>>, [k \in {RaceSession} |-> <<>>]}
    /\ cop = NoChatOp
    /\ documents = <<>>
    /\ embeddings = <<>>
    /\ retriever = NoRetriever
    /\ embsvc = DefaultEmbConfig
    /\ emb = EmbOff
    /\ ingest = NoIngest
    /\ threads = NoThreads
    /\ inflight = [c \in 1..MaxCalls |-> [pc |-> "idle"]]
    /\ tracker = NoTracker
    /\ sop = NoStoreOp
    /\ llm = LlmOff
    /\ trace = <<>>

\* what no step of a call changes
RaceFrame ==
    UNCHANGED <<documents, embeddings, retriever, embsvc, emb, sop, ingest,
                threads, tracker, llmVars, service, cop>>

NextRace ==
    \/ (\E c \in 1..MaxCalls : Race_call(c)) /\ RaceFrame
    \/ (\E c \in 1..MaxCalls : Race_check(c)) /\ RaceFrame
    \/ (\E c \in 1..MaxCalls : Race_create(c)) /\ RaceFrame
    \/ (\E c \in 1..MaxCalls : Race_append_user(c)) /\ RaceFrame
    \/ (\E c \in 1..MaxCalls : Race_append_assistant(c)) /\ RaceFrame

SpecRace == InitRace /\ [][NextRace]_vars

RaceHistory == conversations[RaceSession]

\* the user turn of call c has been appended
UserTurnAppended(c) == inflight[c].pc \in {"generate", "done"}

TurnInHistory(turn) == \E i \in 1..Len(RaceHistory) : RaceHistory[i] = turn

\* C30: two process_message calls for one session that overlap are not
\* serialised: a call appends its user turn whatever the last turn is, so
\* the history can hold two consecutive user turns; and a call that found
\* no entry for the session assigns the empty list whatever another call
\* has appended since its test, so that call's user turn is discarded.
C30_OverlapNotSerialised ==
    [][\A c \in 1..MaxCalls :
         /\ (inflight[c].pc = "create" /\ inflight'[c].pc = "append_user") =>
               conversations'[RaceSession] = <<>>
         /\ (inflight[c].pc = "append_user" /\ inflight'[c].pc = "generate") =>
               /\ RaceSession \in DOMAIN conversations
               /\ conversations'[RaceSession] =
                     Append(conversations[RaceSession], UserTurn(RaceMessage(c)))]_vars

\* the history holds two consecutive user turns, and the user turn of a
\* call that appended it is no longer in the history
C30_Witness ==
    /\ RaceSession \in DOMAIN conversations
    /\ \E i \in 1..(Len(RaceHistory) - 1) :
          RaceHistory[i].role = "user" /\ RaceHistory[i + 1].role = "user"
    /\ \E c \in 1..MaxCalls :
          UserTurnAppended(c) /\ ~TurnInHistory(UserTurn(RaceMessage(c)))

(***************************************************************************)
(* Source excerpts.  A chunk text is the sequence of the lengths of the    *)
(* pieces content.split('. ') gives; an excerpt is its length and whether  *)
(* it was cut.                                                             *)
(***************************************************************************)
\* chat_service.py:398
ChatBudget == 300
\* rag_service.py:231
RagBudget == 200

\* lengths of one sentence
SentenceLengths == {0, 1, 150, 301}

ChunkTexts == UNION {[1..n -> SentenceLengths] : n \in 1..MaxSentences}

RECURSIVE SumLen(_)
SumLen(lens) == IF lens = <<>> THEN 0 ELSE Head(lens) + SumLen(Tail(lens))

\* len(content): the pieces and the '. ' between them
TextLen(sentences) == SumLen(sentences) + 2 * (Len(sentences) - 1)

\* content_preview of _generate_response (chat_service.py:393-399): with
\* more than three sentences, the first two, '. ... ' and the last one;
\* otherwise the first 300 characters and "..."
content_preview(sentences) ==
    IF Len(sentences) > 3
    THEN [len |-> (sentences[1] + 2 + sentences[2]) + 6
                    + sentences[Len(sentences)],
          cut |-> TRUE]
    ELSE IF TextLen(sentences) > ChatBudget
    THEN [len |-> ChatBudget + 3, cut |-> TRUE]
    ELSE [len |-> TextLen(sentences), cut |-> FALSE]

\* the excerpt of RagService.answer_question (rag_service.py:230-233)
rag_excerpt(content_len) ==
    IF content_len > RagBudget
    THEN [len |-> RagBudget + 3, cut |-> TRUE]
    ELSE [len |-> content_len, cut |-> FALSE]

Call_content_preview ==
    /\ sop.op = "excerpt_input"
    /\ sop' = [sop EXCEPT !.op = "content_preview",
                          !.result = content_preview(sop.arg)]
    /\ UNCHANGED <<documents, embeddings, retriever, embsvc, emb, procVars,
                   llmVars, chatVars>>

Call_rag_excerpt ==
    /\ sop.op = "excerpt_input"
    /\ sop' = [sop EXCEPT !.op = "rag_excerpt",
                          !.result = rag_excerpt(TextLen(sop.arg))]
    /\ UNCHANGED <<documents, embeddings, retriever, embsvc, emb, procVars,
                   llmVars, chatVars>>

InitExcerpt ==
    /\ documents = <<>>
    /\ embeddings = <<>>
    /\ retriever = NoRetriever
    /\ embsvc = DefaultEmbConfig
    /\ emb = EmbOff
    /\ ingest = NoIngest
    /\ threads = NoThreads
    /\ inflight = NoInflight
    /\ tracker = NoTracker
    /\ \E text \in ChunkTexts :
         sop = [NoStoreOp EXCEPT !.op = "excerpt_input", !.arg = text]
    /\ llm = LlmOff
    /\ trace = <<>>
    /\ service = "none"
    /\ conversations = <<>>
    /\ cop = NoChatOp

NextExcerpt ==
    \/ Call_content_preview
    \/ Call_rag_excerpt

SpecExcerpt == InitExcerpt /\ [][NextExcerpt]_vars

\* C32: every excerpt of a returned source item is bounded: an excerpt
\* longer than the character budget is cut to the budget and suffixed with
\* an ellipsis marker, so no excerpt is longer than budget + 3 characters,
\* whatever the length and sentence structure of the chunk text.
C32_ExcerptBounded ==
    /\ sop.op = "content_preview" => sop.result.len <= ChatBudget + 3
    /\ sop.op = "rag_excerpt" => sop.result.len <= RagBudget + 3

(***************************************************************************)
(* The sources of _generate_response: the caller builds the context from   *)
(* one retrieval result (process_message, lines 146-150); the sources are  *)
(* built from a retrieval made inside _generate_response (line 374).       *)
(***************************************************************************)
\* retriever.py:89, the default of top_k
DefaultTopK == 3

\* a store with one chunk more than a retrieval returns
SourceDocuments == [i \in 1..(DefaultTopK + 1) |-> Chunk(i)]

\* _generate_response(user_message, context, session_id) with the context
\* of a retrieval result of the same message
Call_generate_sources ==
    /\ sop.op # "generate_sources"
    /\ \E o1 \in retrieve(FALSE, DefaultTopK, TRUE, retriever, documents,
                          embeddings, embsvc) :
         LET context == Contents(o1.result)
         IN \E o2 \in IF context = <<>> THEN {o1}
                      ELSE retrieve(FALSE, DefaultTopK, TRUE, o1.retriever,
                                    o1.documents, o1.embeddings, embsvc) :
              /\ retriever' = o2.retriever
              /\ documents' = o2.documents
              /\ embeddings' = o2.embeddings
              /\ sop' = [NoStoreOp EXCEPT
                           !.op = "generate_sources",
                           !.arg = o1.result,
                           !.result = doc_sources_of(context, o2.result)]
    /\ UNCHANGED <<embsvc, emb, procVars, llmVars, chatVars>>

\* ChatService.__init__ on a store of DefaultTopK + 1 chunks
InitSources ==
    /\ embsvc \in EmbConfigs
    /\ LET r == retriever_init(SourceDocuments, <<>>, embsvc,
                               ConstructionEmbeddings(SourceDocuments))
       IN /\ documents = r.documents
          /\ embeddings = r.embeddings
          /\ retriever = r.retriever
    /\ emb = EmbOff
    /\ ingest = NoIngest
    /\ threads = NoThreads
    /\ inflight = NoInflight
    /\ tracker = NoTracker
    /\ sop = NoStoreOp
    /\ llm = LlmOff
    /\ trace = <<>>
    /\ service = "none"
    /\ conversations = <<>>
    /\ cop = NoChatOp

NextSources == Call_generate_sources

SpecSources == InitSources /\ [][NextSources]_vars

\* C36: the sources injected into a response by _generate_response cite
\* exactly the chunks whose contents form the context of the same request,
\* also when the retriever is in its random-sample fallback mode.
C36_SourcesCiteContext ==
    sop.op = "generate_sources" =>
        /\ Len(sop.result) = Len(sop.arg)
        /\ {sop.result[i].source : i \in 1..Len(sop.result)}
             = {[pdf_file |-> sop.arg[i].file, page |-> sop.arg[i].page] :
                  i \in 1..Len(sop.arg)}

(***************************************************************************)
(* CostTracker                                                             *)
(*                                                                         *)
(* Amounts of money are whole numbers of 10^-9 USD; the code's floats are  *)
(* these amounts up to rounding. Token counts are multiples of 1000, data  *)
(* sizes whole GB and durations whole seconds, so that every product the   *)
(* code forms is a whole amount (gb_second, 16666.67, is rounded).         *)
(***************************************************************************)
Titan == "amazon.titan-embed-text-v1"

\* CostTracker.PRICING
PRICING ==
    [lambda |-> [gb_second |-> 16667, request |-> 200],
     api_gateway |-> [request |-> 3500],
     bedrock |-> ("anthropic.claude-instant-v1" :>
                      [input |-> 1630000, output |-> 5510000]) @@
                 (Haiku :> [input |-> 250000, output |-> 1250000]) @@
                 ("anthropic.claude-3-sonnet-20240229-v1:0" :>
                      [input |-> 3000000, output |-> 15000000]) @@
                 (Titan :> [input |-> 200000, output |-> 0]),
     cloudwatch |-> [log_storage |-> 30000000, log_ingestion |-> 500000000],
     s3 |-> [storage |-> 23000000, get_request |-> 400]]

\* the inputs of the operations
MemorySizes == {1024, 2048}
Durations == {0, 1, 2}
ModelIds == {Haiku, Titan, "unknown-model"}
TokenCounts == {0, 1000}
GetRequests == {0, 1, 2}
DataSizes == {0, 1024 * 1024}

\* sum(self.costs.values()): every value of the dict, the entry "total"
\* among them
sum_costs_values(costs) ==
    costs.lambda + costs.api_gateway + costs.bedrock + costs.s3
      + costs.cloudwatch + costs.total

\* the CloudWatch estimate of stop(): 2 KB of logs ingested and stored
\* for a day
cloudwatch_cost ==
    ((2 * PRICING.cloudwatch.log_ingestion) \div 1024) \div 1024
      + (((2 * PRICING.cloudwatch.log_storage) \div 1024) \div 1024) \div 30

\* CostTracker.start(lambda_memory_mb)
start(t, lambda_memory_mb) ==
    [NoTracker EXCEPT !.start_time = "set",
                      !.lambda_memory_mb = lambda_memory_mb,
                      !.calls = t.calls]

\* CostTracker.stop(), duration_seconds after start()
stop(t, duration_seconds) ==
    IF t.start_time = "None" THEN t
    ELSE LET gb_seconds == (t.lambda_memory_mb \div 1024) * duration_seconds
             c == [t.costs EXCEPT
                     !.lambda = gb_seconds * PRICING.lambda.gb_second
                                  + PRICING.lambda.request,
                     !.api_gateway = PRICING.api_gateway.request,
                     !.cloudwatch = cloudwatch_cost]
         IN [t EXCEPT !.end_time = "set",
                      !.usage.lambda_duration_ms = duration_seconds * 1000,
                      !.usage.lambda_gb_seconds = gb_seconds,
                      !.costs = [c EXCEPT !.total = sum_costs_values(c)]]

\* CostTracker.add_bedrock_cost(model_id, input_tokens, output_tokens)
add_bedrock_cost(t, model_id, input_tokens, output_tokens) ==
    LET u == [t EXCEPT !.usage.bedrock_model = model_id,
                       !.usage.bedrock_input_tokens = @ + input_tokens,
                       !.usage.bedrock_output_tokens = @ + output_tokens]
    IN IF model_id \in DOMAIN PRICING.bedrock
       THEN LET input_cost ==
                    (input_tokens \div 1000) * PRICING.bedrock[model_id].input
                output_cost ==
                    (output_tokens \div 1000) * PRICING.bedrock[model_id].output
                c == [u.costs EXCEPT !.bedrock = @ + input_cost + output_cost]
            IN [u EXCEPT !.costs = [c EXCEPT !.total = sum_costs_values(c)]]
       ELSE u

\* CostTracker.add_s3_cost(get_requests, data_size_kb)
add_s3_cost(t, get_requests, data_size_kb) ==
    LET request_cost == get_requests * PRICING.s3.get_request
        data_gb == (data_size_kb \div 1024) \div 1024
        storage_cost == (data_gb * PRICING.s3.storage) \div 30
        c == [t.costs EXCEPT !.s3 = @ + request_cost + storage_cost]
    IN [t EXCEPT !.usage.s3_get_requests = @ + get_requests,
                 !.costs = [c EXCEPT !.total = sum_costs_values(c)]]

\* one more operation on the tracker
Counted(t) == [t EXCEPT !.calls = @ + 1]

Call_start ==
    /\ tracker.calls < MaxTrackerCalls
    /\ \E m \in MemorySizes : tracker' = Counted(start(tracker, m))

Call_stop ==
    /\ tracker.calls < MaxTrackerCalls
    /\ \E s \in Durations : tracker' = Counted(stop(tracker, s))

Call_add_bedrock_cost ==
    /\ tracker.calls < MaxTrackerCalls
    /\ \E m \in ModelIds, i \in TokenCounts, o \in TokenCounts :
          tracker' = Counted(add_bedrock_cost(tracker, m, i, o))

Call_add_s3_cost ==
    /\ tracker.calls < MaxTrackerCalls
    /\ \E g \in GetRequests, k \in DataSizes :
          tracker' = Counted(add_s3_cost(tracker, g, k))

InitTracker ==
    /\ documents = <<>>
    /\ embeddings = <<>>
    /\ retriever = NoRetriever
    /\ embsvc = DefaultEmbConfig
    /\ emb = EmbOff
    /\ ingest = NoIngest
    /\ threads = NoThreads
    /\ inflight = NoInflight
    /\ tracker = NoTracker
    /\ sop = NoStoreOp
    /\ llm = LlmOff
    /\ trace = <<>>
    /\ service = "none"
    /\ conversations = <<>>
    /\ cop = NoChatOp

\* what no operation of the tracker changes
TrackerFrame ==
    UNCHANGED <<documents, embeddings, retriever, embsvc, emb, sop, ingest,
                threads, inflight, llmVars, chatVars>>

NextTracker ==
    \/ Call_start /\ TrackerFrame
    \/ Call_stop /\ TrackerFrame
    \/ Call_add_bedrock_cost /\ TrackerFrame
    \/ Call_add_s3_cost /\ TrackerFrame

SpecTracker == InitTracker /\ [][NextTracker]_vars

\* C39: after start(), whatever add_bedrock_cost, add_s3_cost and stop calls
\* follow, costs["total"] is the sum of the five per-service costs lambda,
\* api_gateway, bedrock, s3 and cloudwatch.
C39_TotalIsSumOfServices ==
    tracker.start_time # "None" =>
        tracker.costs.total
          = tracker.costs.lambda + tracker.costs.api_gateway
              + tracker.costs.bedrock + tracker.costs.s3
              + tracker.costs.cloudwatch
====
